---- MODULE Spec2Model ----
(***************************************************************************)
(* A model of the KiVar engine (src/source/kivar_engine.py): the rule      *)
(* tokenizer, the configuration-model builder, the selection resolver, the *)
(* apply/diff engine and the variant lookup table.                         *)
(*                                                                         *)
(* Conventions.  Python strings are TLA+ strings (TLC evaluates Len, \o    *)
(* and SubSeq on them).  An optional value (a Python value that may be     *)
(* None) is a sequence of length 0 or 1: None is << >>, v is <<v>>.  A      *)
(* Python dict is a function; a Python list is a sequence.  A function     *)
(* that may raise returns a record with an ok flag.                        *)
(***************************************************************************)
EXTENDS Integers, Sequences, FiniteSets, TLC

VARIABLES
  \* tokenizer harness: the string handed in, and what came back; theParse
  \* is the last call of one of the splitters or of the property parser,
  \* its other arguments and what it returned
  txt, quoted, cooked, theParse, pcStr,
  \* the engine: the snapshot of the board (fpdict), the base token
  \* (FieldID.BASE), what build_vardict returned (vardict, errors), and its
  \* model as it stood before the choice sets were finalized (raw) and
  \* when the checks were made (final)
  theFpdict, theBase, theVardict, theErrors, theRaw, theFinal,
  \* the arguments and the result of the last apply_selection, whether it
  \* raised, and the result of the last detect_current_choices
  theSelection, theDryRun, theChanges, theRaised, theDetected,
  \* history: the snapshot before the last apply_selection and before the
  \* one that preceded it; whether the last apply_selection repeated the
  \* selection of a preceding apply_selection that was not a dry run
  fpBefore, fpBefore2, reapplied,
  \* the last operation of the engine
  pc,
  \* the variant table: the grid in the table file (None: no readable
  \* file), the VariantInfo object, what its last read_csv returned, the
  \* object as it was before that call, and the last operation on it
  theFile, theInfo, infoErrors, infoBefore, infoPc

strvars == <<txt, quoted, cooked, theParse, pcStr>>
buildvars == <<theBase, theVardict, theErrors, theRaw, theFinal>>
applyvars == <<theSelection, theDryRun, theChanges, theRaised, fpBefore, fpBefore2, reapplied>>
engvars == <<theFpdict, buildvars, applyvars, theDetected, pc>>
infovars == <<theFile, theInfo, infoErrors, infoBefore, infoPc>>
vars == <<strvars, engvars, infovars>>

-----------------------------------------------------------------------------
(* Optional values and small helpers *)

None == << >>
Some(v) == <<v>>
IsNone(o) == o = << >>
Get(o) == o[1]

Ch(s, i) == SubSeq(s, i, i)

RECURSIVE CountChar(_, _)
CountChar(s, c) ==
  IF s = "" THEN 0
  ELSE (IF Ch(s, 1) = c THEN 1 ELSE 0) + CountChar(Tail(s), c)

HasAnyOf(s, cs) == \E i \in 1..Len(s) : Ch(s, i) \in cs

BSL == "\\"
SQ == "'"
DQ == "\""

-----------------------------------------------------------------------------
(* Tokenizer: quoting and cooking *)

\* the characters that make quote_str quote its argument
QuoteTriggers == {",", " ", "-", "~", BSL, "[", "]", "(", ")", "=", DQ, SQ}

RECURSIVE EscapeWith(_, _)
EscapeWith(s, cs) ==
  IF s = "" THEN ""
  ELSE (IF Ch(s, 1) \in cs THEN BSL ELSE "") \o Ch(s, 1) \o EscapeWith(Tail(s), cs)

escape_str(string) == EscapeWith(string, {BSL, SQ, DQ})

QuoteChar(string) ==
  IF CountChar(string, SQ) > CountChar(string, DQ) THEN DQ ELSE SQ

quote_str_no_escape(string) ==
  IF string = "" THEN "''"
  ELSE IF HasAnyOf(string, QuoteTriggers)
       THEN QuoteChar(string) \o string \o QuoteChar(string)
       ELSE string

quote_str(string) ==
  IF string = "" THEN "''"
  ELSE IF HasAnyOf(string, QuoteTriggers)
       THEN LET q == QuoteChar(string)
            IN  q \o EscapeWith(string, {BSL, q}) \o q
       ELSE string

\* one step of cook_raw_string's loop over the characters
CookStep(st, c) ==
  IF st.escaped THEN [st EXCEPT !.result = @ \o c, !.escaped = FALSE]
  ELSE IF c = BSL THEN [st EXCEPT !.escaped = TRUE]
  ELSE IF c = SQ /\ ~st.quoted_d THEN [st EXCEPT !.quoted_s = ~@]
  ELSE IF c = DQ /\ ~st.quoted_s THEN [st EXCEPT !.quoted_d = ~@]
  ELSE [st EXCEPT !.result = @ \o c]

RECURSIVE CookLoop(_, _)
CookLoop(st, s) ==
  IF s = "" THEN st ELSE CookLoop(CookStep(st, Ch(s, 1)), Tail(s))

\* what cook_raw_string does after its loop
CookEnd(st) ==
  IF st.escaped THEN [ok |-> FALSE, val |-> "Unterminated escape sequence"]
  ELSE IF st.quoted_s THEN [ok |-> FALSE, val |-> "Unmatched single-quote"]
  ELSE IF st.quoted_d THEN [ok |-> FALSE, val |-> "Unmatched double-quote"]
  ELSE [ok |-> TRUE, val |-> st.result]

cook_raw_string(string) ==
  CookEnd(CookLoop([result |-> "", escaped |-> FALSE,
                    quoted_s |-> FALSE, quoted_d |-> FALSE], string))

-----------------------------------------------------------------------------
(* Tokenizer: splitting *)

SplitInit ==
  [result |-> << >>, item |-> "", escaped |-> FALSE, quoted_s |-> FALSE,
   quoted_d |-> FALSE, parens |-> 0, err |-> ""]

\* one step of split_raw_str's loop over the characters
SplitStep(st, c, sep, multisep) ==
  IF st.err # "" THEN st
  ELSE IF st.escaped THEN [st EXCEPT !.escaped = FALSE, !.item = @ \o c]
  ELSE IF c = BSL THEN [st EXCEPT !.escaped = TRUE, !.item = @ \o c]
  ELSE IF c = SQ /\ ~st.quoted_d THEN [st EXCEPT !.quoted_s = ~@, !.item = @ \o c]
  ELSE IF c = DQ /\ ~st.quoted_s THEN [st EXCEPT !.quoted_d = ~@, !.item = @ \o c]
  ELSE IF c = "(" /\ ~(st.quoted_s \/ st.quoted_d)
       THEN [st EXCEPT !.parens = @ + 1, !.item = @ \o c]
  ELSE IF c = ")" /\ ~(st.quoted_s \/ st.quoted_d)
       THEN IF st.parens > 0
            THEN [st EXCEPT !.parens = @ - 1, !.item = @ \o c]
            ELSE [st EXCEPT !.err = "Unmatched closing parenthesis"]
  ELSE IF c = sep /\ ~(st.quoted_s \/ st.quoted_d) /\ st.parens = 0
       THEN IF ~multisep \/ st.item # ""
            THEN [st EXCEPT !.result = Append(@, st.item), !.item = ""]
            ELSE st
  ELSE [st EXCEPT !.item = @ \o c]

RECURSIVE SplitLoop(_, _, _, _, _)
SplitLoop(st, s, i, sep, multisep) ==
  IF i > Len(s) THEN st
  ELSE SplitLoop(SplitStep(st, Ch(s, i), sep, multisep), s, i + 1, sep, multisep)

\* SplitEnd that keeps the last item whatever multisep is
SplitEndKeepLast(st, multisep) ==
  IF st.err # "" THEN [ok |-> FALSE, val |-> << >>, err |-> st.err]
  ELSE IF st.parens # 0
       THEN [ok |-> FALSE, val |-> << >>, err |-> "Unmatched opening parenthesis"]
  ELSE IF st.escaped
       THEN [ok |-> FALSE, val |-> << >>, err |-> "Unterminated escape sequence"]
  ELSE IF st.quoted_s
       THEN [ok |-> FALSE, val |-> << >>, err |-> "Unmatched single-quote"]
  ELSE IF st.quoted_d
       THEN [ok |-> FALSE, val |-> << >>, err |-> "Unmatched double-quote"]
  ELSE [ok |-> TRUE, val |-> Append(st.result, st.item), err |-> ""]

\* what split_raw_str does after its loop
SplitEnd(st, multisep) ==
  IF st.err # "" THEN [ok |-> FALSE, val |-> << >>, err |-> st.err]
  ELSE IF st.parens # 0
       THEN [ok |-> FALSE, val |-> << >>, err |-> "Unmatched opening parenthesis"]
  ELSE IF st.escaped
       THEN [ok |-> FALSE, val |-> << >>, err |-> "Unterminated escape sequence"]
  ELSE IF st.quoted_s
       THEN [ok |-> FALSE, val |-> << >>, err |-> "Unmatched single-quote"]
  ELSE IF st.quoted_d
       THEN [ok |-> FALSE, val |-> << >>, err |-> "Unmatched double-quote"]
  ELSE [ok |-> TRUE,
        val |-> IF ~multisep \/ st.item # "" THEN Append(st.result, st.item)
                ELSE st.result,
        err |-> ""]

split_raw_str(str, sep, multisep) ==
  SplitEnd(SplitLoop(SplitInit, str, 1, sep, multisep), multisep)

ParensInit ==
  [item |-> "", outside |-> None, inside |-> None, escaped |-> FALSE,
   quoted_s |-> FALSE, quoted_d |-> FALSE, parens |-> 0,
   end_expected |-> FALSE, err |-> ""]

\* one step of split_parens' loop over the characters
ParensStep(st, c) ==
  IF st.err # "" THEN st
  ELSE IF st.end_expected
       THEN [st EXCEPT !.err = "String extends beyond closing parenthesis"]
  ELSE IF st.escaped THEN [st EXCEPT !.escaped = FALSE, !.item = @ \o c]
  ELSE IF c = BSL THEN [st EXCEPT !.escaped = TRUE, !.item = @ \o c]
  ELSE IF c = SQ /\ ~st.quoted_d THEN [st EXCEPT !.quoted_s = ~@, !.item = @ \o c]
  ELSE IF c = DQ /\ ~st.quoted_s THEN [st EXCEPT !.quoted_d = ~@, !.item = @ \o c]
  ELSE IF c = "(" /\ ~(st.quoted_s \/ st.quoted_d)
       THEN IF st.parens = 0
            THEN [st EXCEPT !.parens = 1, !.outside = Some(st.item),
                            !.inside = Some(""), !.item = ""]
            ELSE [st EXCEPT !.parens = @ + 1, !.item = @ \o c]
  ELSE IF c = ")" /\ ~(st.quoted_s \/ st.quoted_d)
       THEN IF st.parens > 0
            THEN IF st.parens = 1
                 THEN [st EXCEPT !.parens = 0, !.inside = Some(st.item),
                                 !.item = "", !.end_expected = TRUE]
                 ELSE [st EXCEPT !.parens = @ - 1, !.item = @ \o c]
            ELSE [st EXCEPT !.err = "Unmatched closing parenthesis"]
  ELSE [st EXCEPT !.item = @ \o c]

RECURSIVE ParensLoop(_, _, _)
ParensLoop(st, s, i) ==
  IF i > Len(s) THEN st ELSE ParensLoop(ParensStep(st, Ch(s, i)), s, i + 1)

ParensFail(e) == [ok |-> FALSE, outside |-> None, inside |-> None, err |-> e]

\* ParensEnd without the check for a group left open
ParensEndOpenGroup(st) ==
  IF st.err # "" THEN ParensFail(st.err)
  ELSE IF st.escaped THEN ParensFail("Unterminated escape sequence")
  ELSE IF st.quoted_s THEN ParensFail("Unmatched single-quote")
  ELSE IF st.quoted_d THEN ParensFail("Unmatched double-quote")
  ELSE [ok |-> TRUE,
        outside |-> IF st.item # "" THEN Some(st.item) ELSE st.outside,
        inside |-> st.inside, err |-> ""]

\* what split_parens does after its loop
ParensEnd(st) ==
  IF st.err # "" THEN ParensFail(st.err)
  ELSE IF st.parens # 0 THEN ParensFail("Unmatched opening parenthesis")
  ELSE IF st.escaped THEN ParensFail("Unterminated escape sequence")
  ELSE IF st.quoted_s THEN ParensFail("Unmatched single-quote")
  ELSE IF st.quoted_d THEN ParensFail("Unmatched double-quote")
  ELSE [ok |-> TRUE,
        outside |-> IF st.item # "" THEN Some(st.item) ELSE st.outside,
        inside |-> st.inside, err |-> ""]

split_parens(string) == ParensEnd(ParensLoop(ParensInit, string, 1))

-----------------------------------------------------------------------------
(* Keys, property codes and the property specifier parser *)

Key_DEFAULT == "*"
Key_STANDIN == "?"

PropCode_FIT == "F"
PropCode_BOM == "B"
PropCode_POS == "P"
PropCode_SOLDER == "S"
PropCode_MODEL == "M"
PropGroup_ASSEMBLE == "!"

base_prop_codes ==
  {PropCode_FIT, PropCode_BOM, PropCode_POS, PropCode_SOLDER, PropCode_MODEL}
supported_prop_codes == base_prop_codes \cup {PropGroup_ASSEMBLE}
inverted_prop_codes == {PropCode_FIT, PropCode_BOM, PropCode_POS}
indexed_prop_codes == {PropCode_MODEL}
group_assemble_prop_codes == {PropCode_FIT, PropCode_BOM, PropCode_POS}

UpperChars == "ABCDEFGHIJKLMNOPQRSTUVWXYZ"
LowerChars == "abcdefghijklmnopqrstuvwxyz"
DigitChars == "0123456789"

\* the position of character c in string s, 0 when it is not there
IndexIn(s, c) ==
  IF \E i \in 1..Len(s) : Ch(s, i) = c
  THEN CHOOSE i \in 1..Len(s) : Ch(s, i) = c
  ELSE 0

UpperChar(c) ==
  IF IndexIn(LowerChars, c) > 0 THEN Ch(UpperChars, IndexIn(LowerChars, c)) ELSE c
LowerChar(c) ==
  IF IndexIn(UpperChars, c) > 0 THEN Ch(LowerChars, IndexIn(UpperChars, c)) ELSE c

RECURSIVE MapChars(_, _, _)
MapChars(s, i, upper) ==
  IF i > Len(s) THEN ""
  ELSE (IF upper THEN UpperChar(Ch(s, i)) ELSE LowerChar(Ch(s, i)))
       \o MapChars(s, i + 1, upper)

Upper(s) == MapChars(s, 1, TRUE)
Lower(s) == MapChars(s, 1, FALSE)

IsDigit(c) == IndexIn(DigitChars, c) > 0
DigitVal(c) == IndexIn(DigitChars, c) - 1

RECURSIVE IntToStr(_)
IntToStr(n) ==
  IF n < 10 THEN Ch(DigitChars, n + 1)
  ELSE IntToStr(n \div 10) \o Ch(DigitChars, (n % 10) + 1)

EmptyDict == [k \in {} |-> TRUE]
Put(d, k, v) == [x \in (DOMAIN d) \cup {k} |-> IF x = k THEN v ELSE d[x]]
PutAll(d, ks, v) == [x \in (DOMAIN d) \cup ks |-> IF x \in ks THEN v ELSE d[x]]
Without(d, ks) == [x \in (DOMAIN d) \ ks |-> d[x]]

\* nothing was handed to the tokenizer
TokenizerIdle ==
  /\ txt = ""
  /\ quoted = ""
  /\ cooked = [ok |-> FALSE, val |-> ""]
  /\ theParse = [args |-> << >>, out |-> << >>]
  /\ pcStr = "idle"

\* VariantInfo.__init__: an object without a table
NewVariantInfo ==
  [aspects |-> << >>, variants |-> << >>, choices |-> EmptyDict,
   hash_at_load |-> None, is_loaded |-> FALSE]

\* no variant table is in use
VariantIdle ==
  /\ theFile = None
  /\ theInfo = NewVariantInfo
  /\ infoErrors = << >>
  /\ infoBefore = NewVariantInfo
  /\ infoPc = "idle"

prop_state(props, prop) == IF prop \in DOMAIN props THEN props[prop] ELSE None

apply_indexed_prop(prop_set, prop_code, prop_index, state) ==
  IF ~(IsNone(prop_code) \/ IsNone(prop_index))
  THEN Put(prop_set, Get(prop_code) \o "#" \o IntToStr(Get(prop_index)), Get(state))
  ELSE prop_set

MaxPropIndex == 99999

PropInit(prop_set) ==
  [prop_set |-> prop_set, state |-> None, expect_code |-> FALSE,
   expect_index |-> FALSE, current_code |-> None, current_index |-> None,
   err |-> ""]

\* one step of parse_prop_str's loop over the (upper-cased) characters
PropStep(st, c) ==
  IF st.err # "" THEN st
  ELSE IF c \in {"+", "-"}
       THEN IF st.expect_code
            THEN [st EXCEPT !.err = "Got property modifier where property identifier was expected"]
            ELSE IF st.expect_index
            THEN [st EXCEPT !.err = "Got property modifier where property index was expected"]
            ELSE [st EXCEPT
                    !.prop_set = apply_indexed_prop(@, st.current_code,
                                                    st.current_index, st.state),
                    !.current_code = None, !.current_index = None,
                    !.expect_code = TRUE, !.state = Some(c = "+")]
  ELSE IF c \in supported_prop_codes
       THEN IF st.expect_index
            THEN [st EXCEPT !.err = "Got property code where property index was expected"]
            ELSE IF IsNone(st.state)
            THEN [st EXCEPT !.err = "Undefined property modifier for identifier"]
            ELSE LET applied == apply_indexed_prop(st.prop_set, st.current_code,
                                                   st.current_index, st.state)
                 IN  IF c \in indexed_prop_codes
                     THEN [st EXCEPT !.prop_set = applied, !.expect_code = FALSE,
                                     !.current_code = Some(c),
                                     !.current_index = Some(0),
                                     !.expect_index = TRUE]
                     ELSE [st EXCEPT
                             !.prop_set =
                                IF c = PropGroup_ASSEMBLE
                                THEN PutAll(applied, group_assemble_prop_codes,
                                            Get(st.state))
                                ELSE Put(applied, c, Get(st.state)),
                             !.expect_code = FALSE,
                             !.current_code = None, !.current_index = None]
  ELSE IF IsDigit(c)
       THEN IF IsNone(st.current_code) \/ IsNone(st.current_index)
            THEN [st EXCEPT !.err = "Got unexpected property index"]
            ELSE LET idx == Get(st.current_index) * 10 + DigitVal(c)
                 IN  IF idx > MaxPropIndex
                     THEN [st EXCEPT !.current_index = Some(idx),
                                     !.err = "Index value for property code is too high"]
                     ELSE [st EXCEPT !.current_index = Some(idx),
                                     !.expect_index = FALSE]
  ELSE [st EXCEPT !.err = "Unsupported property code"]

RECURSIVE PropLoop(_, _, _)
PropLoop(st, s, i) ==
  IF i > Len(s) THEN st ELSE PropLoop(PropStep(st, Ch(s, i)), s, i + 1)

\* PropEnd without the checks for a specifier that ends too early
PropEndUnchecked(st) ==
  IF st.err # "" THEN [ok |-> FALSE, prop_set |-> st.prop_set, err |-> st.err]
  ELSE [ok |-> TRUE,
        prop_set |-> apply_indexed_prop(st.prop_set, st.current_code,
                                        st.current_index, st.state),
        err |-> ""]

\* parse_prop_str changes the caller's prop_set in place: prop_set is the
\* dict as the call leaves it, also when the call raises (ok = FALSE)
\* what parse_prop_str does after its loop: the pending indexed property
\* is applied before the end of the specifier is checked
PropEnd(st) ==
  IF st.err # "" THEN [ok |-> FALSE, prop_set |-> st.prop_set, err |-> st.err]
  ELSE [ok |-> ~(st.expect_code \/ st.expect_index),
        prop_set |-> apply_indexed_prop(st.prop_set, st.current_code,
                                        st.current_index, st.state),
        err |-> IF st.expect_code
                THEN "End of property specifier when property code was expected"
                ELSE IF st.expect_index
                THEN "End of property specifier when property index was expected"
                ELSE ""]

\* parse_prop_str reading the specifier as it is written
ParsePropStrCased(prop_str, prop_set) ==
  PropEnd(PropLoop(PropInit(prop_set), prop_str, 1))

parse_prop_str(prop_str, prop_set) ==
  PropEnd(PropLoop(PropInit(prop_set), Upper(prop_str), 1))

split_prop_id(prop_id) ==
  IF /\ Len(prop_id) > 2
     /\ Ch(prop_id, 2) = "#"
     /\ Ch(prop_id, 1) \in indexed_prop_codes
     /\ \A i \in 3..Len(prop_id) : IsDigit(Ch(prop_id, i))
  THEN [code |-> Some(Ch(prop_id, 1)), indexed |-> TRUE]
  ELSE IF Len(prop_id) = 1 /\ Ch(prop_id, 1) \in supported_prop_codes
  THEN [code |-> Some(Ch(prop_id, 1)), indexed |-> FALSE]
  ELSE [code |-> None, indexed |-> FALSE]

convert_attrib_prop_state(prop_code, state) ==
  IF prop_code \in inverted_prop_codes THEN ~state ELSE state

-----------------------------------------------------------------------------
(* The solder paste margin ratio: IEEE 754 double arithmetic                *)
(*                                                                         *)
(* The ratio is a Python float.  A float is modelled exactly, as sign and  *)
(* magnitude A + H / 2^28 + L / 2^56 (A the integer part, H and L two      *)
(* limbs of 28 fraction bits each), for magnitudes below 2^24 that are     *)
(* multiples of 2^-56.  A sum is the exact sum rounded to the 53           *)
(* significant bits of a double, ties to even, as the hardware does.       *)

Limb == 2^28

Flt(neg, A, H, L) == [neg |-> neg, A |-> A, H |-> H, L |-> L]
FltInt(n) == IF n < 0 THEN Flt(TRUE, -n, 0, 0) ELSE Flt(FALSE, n, 0, 0)

FNeg(x) == IF x.A = 0 /\ x.H = 0 /\ x.L = 0 THEN x ELSE [x EXCEPT !.neg = ~@]

\* a + h / 2^28 + l / 2^56 with 0 <= h, l < 2^28 (the floor form), from any
\* three signed limbs
Carry(a, h, l) == <<a + ((h - (h % Limb)) \div Limb), h % Limb, l>>

FloorForm(a, h, l) == Carry(a, h + ((l - (l % Limb)) \div Limb), l % Limb)

FltOf(neg, m) == Flt(neg, m[1], m[2], m[3])

Signed(x) ==
  IF x.neg THEN FloorForm(-x.A, -x.H, -x.L) ELSE <<x.A, x.H, x.L>>

\* sign and magnitude from the floor form
FromFloor(t) ==
  IF t[1] >= 0 THEN Flt(FALSE, t[1], t[2], t[3])
  ELSE FltOf(TRUE, FloorForm(-t[1], -t[2], -t[3]))

LimbsLess(a, b) ==
  \/ a[1] < b[1]
  \/ a[1] = b[1] /\ a[2] < b[2]
  \/ a[1] = b[1] /\ a[2] = b[2] /\ a[3] < b[3]

FLess(x, y) == LimbsLess(Signed(x), Signed(y))

FLeq(x, y) == x = y \/ FLess(x, y)

RECURSIVE Log2(_)
Log2(n) == IF n <= 1 THEN 0 ELSE 1 + Log2(n \div 2)

\* the exponent of the leading bit of a non-zero magnitude
LeadExp(x) ==
  IF x.A > 0 THEN Log2(x.A)
  ELSE IF x.H > 0 THEN Log2(x.H) - 28
  ELSE Log2(x.L) - 56

\* x with the low drop bits of L rounded away: q is 2^drop, rem the bits
\* rounded away, odd whether the last bit kept is set
RoundBits(x, q, rem, odd) ==
  FltOf(x.neg, FloorForm(x.A, x.H,
                         IF rem * 2 > q \/ (rem * 2 = q /\ odd)
                         THEN (x.L - rem) + q ELSE x.L - rem))

RoundDrop(x, drop, q) ==
  IF drop <= 0 THEN x
  ELSE RoundBits(x, q, x.L % q,
                 IF drop < 28 THEN (x.L \div q) % 2 = 1 ELSE x.H % 2 = 1)

\* round to nearest, ties to even, to 53 significant bits: the low
\* LeadExp(x) - 52 + 56 bits of L do not fit
FRound(x) ==
  IF x.A = 0 /\ x.H = 0 /\ x.L = 0 THEN x
  ELSE RoundDrop(x, LeadExp(x) + 4, 2^(IF LeadExp(x) + 4 > 0 THEN LeadExp(x) + 4 ELSE 0))

LimbsSum(a, b) == FloorForm(a[1] + b[1], a[2] + b[2], a[3] + b[3])

FAdd(x, y) == FRound(FromFloor(LimbsSum(Signed(x), Signed(y))))

FSub(x, y) == FAdd(x, FNeg(y))

\* class PasteRatio
PasteRatio_OFFSET == FltInt(-42000)
PasteRatio_TOLERANCE == FltInt(100)
PasteRatio_INHERIT == FltInt(-42420)
PasteRatio_INHERIT_EPS == Flt(FALSE, 0, 26843545, 161061274)   \* the double 0.1

\* class PasteMode
PasteMode_INVALID == 0
PasteMode_ON_IS_INHERIT == 1
PasteMode_ON_WITH_RATIO == 2
PasteMode_OFF_WAS_INHERIT == 3
PasteMode_OFF_WAS_RATIO == 4

\* pratio is an optional float
paste_mode_from_ratio(pratio) ==
  IF IsNone(pratio) THEN PasteMode_ON_IS_INHERIT
  ELSE LET r == Get(pratio)
       IN  IF /\ FLeq(r, PasteRatio_TOLERANCE)
              /\ FLeq(FNeg(PasteRatio_TOLERANCE), r)
           THEN PasteMode_ON_WITH_RATIO
           ELSE IF /\ FLeq(r, FAdd(PasteRatio_INHERIT, PasteRatio_INHERIT_EPS))
                   /\ FLeq(FSub(PasteRatio_INHERIT, PasteRatio_INHERIT_EPS), r)
           THEN PasteMode_OFF_WAS_INHERIT
           ELSE IF /\ FLeq(r, FAdd(PasteRatio_OFFSET, PasteRatio_TOLERANCE))
                   /\ FLeq(FSub(PasteRatio_OFFSET, PasteRatio_TOLERANCE), r)
           THEN PasteMode_OFF_WAS_RATIO
           ELSE PasteMode_INVALID

\* an optional boolean
PasteStateOfMode(mode) ==
  IF mode \in {PasteMode_ON_IS_INHERIT, PasteMode_ON_WITH_RATIO} THEN Some(TRUE)
  ELSE IF mode \in {PasteMode_OFF_WAS_INHERIT, PasteMode_OFF_WAS_RATIO}
       THEN Some(FALSE)
  ELSE None

paste_state_from_ratio(pratio) == PasteStateOfMode(paste_mode_from_ratio(pratio))

-----------------------------------------------------------------------------
(* The component snapshot (fpdict)                                         *)
(*                                                                         *)
(* fpdict is a sequence of components; a component's uuid is its place in  *)
(* the sequence (the dict's insertion order).  A component is              *)
(*   [R |-> reference, F |-> fields, v |-> value, p |-> props, pr |-> ratio]*)
(* with fields a sequence of <<name, text>> pairs with distinct names (an  *)
(* ordered dict), props a function from property ids to optional booleans  *)
(* and ratio an optional float.                                            *)

FieldIDOptions == <<"Var", "Variant", "Config", "Build">>
FieldID_ASPECT == "Aspect"

FieldNames(fields) == {fields[i][1] : i \in 1..Len(fields)}
FieldText(fields, name) ==
  fields[CHOOSE i \in 1..Len(fields) : fields[i][1] = name][2]
SetField(fields, name, text) ==
  [i \in 1..Len(fields) |->
     IF fields[i][1] = name THEN <<name, text>> ELSE fields[i]]

field_accepted(field_name) ==
  Lower(field_name) \notin {"value", "reference", "footprint"}

RECURSIVE Join(_, _)
Join(parts, sep) ==
  IF parts = << >> THEN ""
  ELSE IF Len(parts) = 1 THEN parts[1]
  ELSE parts[1] \o sep \o Join(Tail(parts), sep)

Last(q) == q[Len(q)]
ButLast(q) == SubSeq(q, 1, Len(q) - 1)

\* an optional error text
field_name_check(field_name, available_fields) ==
  IF ~field_accepted(field_name) THEN Some("Target field is forbidden")
  ELSE IF field_name \notin FieldNames(available_fields)
       THEN Some("Target field does not exist")
  ELSE None

ParensOutsideIs(pp, base) == pp.ok /\ pp.outside = Some(base)

PartsMatchBase(sp, base) ==
  /\ sp.ok
  /\ \/ Len(sp.val) = 2 /\ sp.val[1] = base /\ sp.val[2] = FieldID_ASPECT
     \/ Len(sp.val) = 1 /\ sp.val[1] = base
     \/ Len(sp.val) > 1 /\ Last(sp.val) = base
     \/ ParensOutsideIs(split_parens(Last(sp.val)), base)

\* TRUE when field name fp_field has one of the record shapes under base
FieldMatchesBase(fp_field, base) ==
  PartsMatchBase(split_raw_str(fp_field, ".", FALSE), base)

\* the places in FieldIDOptions of the candidates that some non-empty
\* field of the snapshot matches
BaseHits(fpdict) ==
  {b \in 1..Len(FieldIDOptions) :
     \E u \in 1..Len(fpdict) : \E i \in 1..Len(fpdict[u].F) :
        /\ fpdict[u].F[i][2] # ""
        /\ FieldMatchesBase(fpdict[u].F[i][1], FieldIDOptions[b])}

FirstOption(hits) ==
  IF hits = {} THEN None
  ELSE Some(FieldIDOptions[CHOOSE b \in hits : \A c \in hits : b <= c])

\* an optional base token
determine_fieldID_base(fpdict) == FirstOption(BaseHits(fpdict))

-----------------------------------------------------------------------------
(* Rule record parsing *)

ParseRuleInit == [errors |-> << >>, aspects |-> << >>, choice_sets |-> << >>]

\* a section without parentheses: an aspect name, cooked
ParseRuleAspect(st, ck) ==
  IF ~ck.ok
  THEN [st EXCEPT !.errors = Append(@, "Aspect identifier parser: " \o ck.val)]
  ELSE IF ck.val = ""
  THEN [st EXCEPT !.errors = Append(@, "Aspect identifier must not be empty")]
  ELSE [st EXCEPT !.aspects = Append(@, ck.val)]

\* a section of a combined record, split at its parentheses (sections are
\* not empty, so a section without a group has an outside)
ParseRuleParens(st, pp) ==
  IF ~pp.ok
  THEN [st EXCEPT !.errors = Append(@, "Choice expression splitter: " \o pp.err)]
  ELSE IF IsNone(pp.inside)
  THEN ParseRuleAspect(st, cook_raw_string(Get(pp.outside)))
  ELSE IF IsNone(pp.outside) \/ pp.outside = Some("")
  THEN [st EXCEPT !.errors = Append(@, "Choice identifier list must not be empty")]
  ELSE [st EXCEPT !.choice_sets = Append(@, <<Get(pp.outside), Get(pp.inside)>>)]

\* one section of a combined record
ParseRuleSection(st, section) == ParseRuleParens(st, split_parens(section))

RECURSIVE ParseRuleLoop(_, _, _)
ParseRuleLoop(st, sections, i) ==
  IF i > Len(sections) THEN st
  ELSE ParseRuleLoop(ParseRuleSection(st, sections[i]), sections, i + 1)

ParseRuleSections(sp) ==
  IF ~sp.ok
  THEN [errors |-> <<"Combined record splitter: " \o sp.err>>,
        aspects |-> << >>, choice_sets |-> << >>]
  ELSE ParseRuleLoop(ParseRuleInit, sp.val, 1)

\* rule_str is an optional string
parse_rule_str(rule_str) ==
  IF IsNone(rule_str) THEN ParseRuleInit
  ELSE ParseRuleSections(split_raw_str(Get(rule_str), " ", TRUE))

ParseFieldsInit ==
  [errors |-> << >>, aspect |-> None, cmp_rule_string |-> None,
   cmp_choice_sets |-> << >>, fld_rule_strings |-> << >>,
   fld_choice_sets |-> << >>]

TargetField(parts) == Join(ButLast(parts), ".")

\* a combined field record for target_field: e is what field_name_check says
ParseFieldCombined(st, target_field, value, e) ==
  IF ~IsNone(e)
  THEN [st EXCEPT !.errors = Append(@, "Combined field record: " \o Get(e))]
  ELSE [st EXCEPT !.fld_rule_strings = Append(@, <<target_field, value>>)]

\* a simple field record for target_field: e is what field_name_check says
ParseFieldSimple(st, target_field, name_list, value, e) ==
  IF ~IsNone(e)
  THEN [st EXCEPT !.errors = Append(@, "Simple field record: " \o Get(e))]
  ELSE [st EXCEPT !.fld_choice_sets = Append(@, <<target_field, name_list, value>>)]

\* a simple record: inp is its choice name list split at spaces
ParseFieldNames(st, parts, value, fields, name_list, inp) ==
  IF ~inp.ok THEN st
  ELSE IF Len(inp.val) > 1
  THEN [st EXCEPT !.errors =
          Append(@, "Choice identifier list contains illegal space character")]
  ELSE IF Len(parts) = 1
  THEN [st EXCEPT !.cmp_choice_sets = Append(@, <<name_list, value>>)]
  ELSE ParseFieldSimple(st, TargetField(parts), name_list, value,
                        field_name_check(TargetField(parts), fields))

\* a field whose last part pp may be base(...): then there is a group and
\* inside is set
ParseFieldParens(st, parts, value, fields, base, pp) ==
  IF ~pp.ok THEN st
  ELSE IF pp.outside # Some(base) THEN st
  ELSE ParseFieldNames(st, parts, value, fields, Get(pp.inside),
                       split_raw_str(Get(pp.inside), " ", TRUE))

\* a field whose name is split at the dots into sp
ParseFieldParts(st, sp, value, fields, base) ==
  IF ~sp.ok THEN st
  ELSE IF Len(sp.val) = 2 /\ sp.val[1] = base /\ sp.val[2] = FieldID_ASPECT
  THEN [st EXCEPT !.aspect = Some(value)]
  ELSE IF Len(sp.val) = 1 /\ sp.val[1] = base
  THEN [st EXCEPT !.cmp_rule_string = Some(value)]
  ELSE IF Len(sp.val) > 1 /\ Last(sp.val) = base
  THEN ParseFieldCombined(st, TargetField(sp.val), value,
                          field_name_check(TargetField(sp.val), fields))
  ELSE ParseFieldParens(st, sp.val, value, fields, base,
                        split_parens(Last(sp.val)))

\* one field of a component, under the base token
ParseField(st, fp_field, value, fields, base) ==
  ParseFieldParts(st, split_raw_str(fp_field, ".", FALSE), value, fields, base)

RECURSIVE ParseFieldsLoop(_, _, _, _)
ParseFieldsLoop(st, fields, i, base) ==
  IF i > Len(fields) THEN st
  ELSE ParseFieldsLoop(ParseField(st, fields[i][1], fields[i][2], fields, base),
                       fields, i + 1, base)

parse_rule_fields(fpdict_uuid_branch, base) ==
  ParseFieldsLoop(ParseFieldsInit, fpdict_uuid_branch.F, 1, base)

-----------------------------------------------------------------------------
(* Natural-order sorting *)

\* the printable characters in code point order, lower case only as
\* natural_sort_key lower-cases (the grave accent is left out)
CharOrder ==
  " !" \o DQ \o "#$%&" \o SQ \o "()*+,-./" \o DigitChars \o ":;<=>?@["
  \o BSL \o "]^_" \o LowerChars \o "{|}~"

RECURSIVE StrToInt(_, _)
StrToInt(s, acc) ==
  IF s = "" THEN acc ELSE StrToInt(Tail(s), acc * 10 + DigitVal(Ch(s, 1)))

\* the pending digits of natural_sort_key, if any, become a number
FlushPart(key, part) ==
  IF part # "" THEN Append(key, <<0, StrToInt(part, 0), 0>>) ELSE key

RECURSIVE NatKeyLoop(_, _, _, _)
NatKeyLoop(string, i, key, part) ==
  IF i > Len(string) THEN FlushPart(key, part)
  ELSE IF IsDigit(Ch(string, i))
  THEN NatKeyLoop(string, i + 1, key, part \o Ch(string, i))
  ELSE NatKeyLoop(string, i + 1,
                  Append(FlushPart(key, part),
                         <<1, 0, IndexIn(CharOrder, LowerChar(Ch(string, i)))>>),
                  "")

\* a list of (kind, number, character rank) triples
natural_sort_key(string) == NatKeyLoop(string, 1, << >>, "")

TripleLess(a, b) ==
  \/ a[1] < b[1]
  \/ a[1] = b[1] /\ a[2] < b[2]
  \/ a[1] = b[1] /\ a[2] = b[2] /\ a[3] < b[3]

RECURSIVE KeyLess(_, _)
KeyLess(k1, k2) ==
  IF k2 = << >> THEN FALSE
  ELSE IF k1 = << >> THEN TRUE
  ELSE IF TripleLess(k1[1], k2[1]) THEN TRUE
  ELSE IF TripleLess(k2[1], k1[1]) THEN FALSE
  ELSE KeyLess(Tail(k1), Tail(k2))

NatLess(a, b) == KeyLess(natural_sort_key(a), natural_sort_key(b))

NatMin(S) == CHOOSE x \in S : \A y \in S : ~NatLess(y, x)

\* the members of a finite set of strings as a list, in natural order
RECURSIVE SortedNat(_)
RECURSIVE SortedNatFrom(_, _)
SortedNat(S) == IF S = {} THEN << >> ELSE SortedNatFrom(S, NatMin(S))
SortedNatFrom(S, m) == <<m>> \o SortedNat(S \ {m})

\* the members of a finite set as a list, in some order
RECURSIVE SetToSeq(_)
RECURSIVE SetToSeqFrom(_, _)
SetToSeq(S) == IF S = {} THEN << >> ELSE SetToSeqFrom(S, CHOOSE x \in S : TRUE)
SetToSeqFrom(S, m) == <<m>> \o SetToSeq(S \ {m})

Reverse(q) == [i \in 1..Len(q) |-> q[Len(q) + 1 - i]]
Range(q) == {q[i] : i \in 1..Len(q)}

-----------------------------------------------------------------------------
(* The configuration model (vardict)                                       *)
(*                                                                         *)
(* vardict maps the uuid of a component to                                  *)
(*   [a |-> aspect, c |-> branch, f |-> (field name -> branch)]            *)
(* where a branch (a choice set) maps a choice name to                      *)
(*   [v |-> optional value, p |-> (property id -> optional boolean)].      *)
(* An error is [msg |-> text, args |-> names]; build_vardict adds the      *)
(* uuid (optional) and the record the error was found in.                  *)

Err(msg, args) == [msg |-> msg, args |-> args]

NewChoice == [v |-> None, p |-> EmptyDict]

MsgMixedValue == "Mixed choices with defined and undefined content"
MsgMixedProp == "Mixed choices with defined and undefined property state"
MsgAmbiguity == "Illegal ambiguity: Aspect has equivalent choices"
MsgDupValue == "Illegal additional content assignment for choice"
MsgDupProp == "Illegal additional property assignment for choice"

\* a property specifier of a component-scope record, parsed into pr
AddChoiceProps(st, pr) ==
  [st EXCEPT !.prop_set = pr.prop_set,
             !.errors = IF pr.ok THEN @
                        ELSE Append(@, Err("Property specifier parser error: " \o pr.err,
                                           << >>))]

\* the argument loop of add_choice: values and property set of one record
AddChoiceArg(st, raw_arg, field_scope) ==
  IF Ch(raw_arg, 1) \in {"-", "+"}
  THEN IF field_scope
       THEN [st EXCEPT !.errors =
               Append(@, Err("No property specifiers allowed in field-scope records", << >>))]
       ELSE AddChoiceProps(st, parse_prop_str(cook_raw_string(raw_arg).val, st.prop_set))
  ELSE [st EXCEPT !.values = Append(@, cook_raw_string(raw_arg).val)]

RECURSIVE AddChoiceArgs(_, _, _, _)
AddChoiceArgs(st, raw_args, i, field_scope) ==
  IF i > Len(raw_args) THEN st
  ELSE AddChoiceArgs(AddChoiceArg(st, raw_args[i], field_scope), raw_args,
                     i + 1, field_scope)

\* what a choice set holds for a choice, NewChoice when it is not there
ChoiceOf(branch, choice) ==
  IF choice \in DOMAIN branch THEN branch[choice] ELSE NewChoice

\* property k of the choice entry old has a state already
Taken(old, k) == k \in DOMAIN old.p /\ ~IsNone(old.p[k])

DupValueErrors(old, choice, values) ==
  IF values # << >> /\ ~IsNone(old.v) THEN <<Err(MsgDupValue, <<choice>>)>>
  ELSE << >>

DupPropErrors(choice, dupp) ==
  [i \in 1..Len(dupp) |-> Err(MsgDupProp, <<choice, dupp[i]>>)]

\* the assignment of one record's values and properties to one choice,
\* whose entry is old
AssignTo(st, choice, values, prop_set, old) ==
  [branch |->
     Put(st.branch, choice,
         [v |-> IF values # << >> /\ IsNone(old.v) THEN Some(Join(values, " "))
                ELSE old.v,
          p |-> [k \in (DOMAIN old.p) \cup (DOMAIN prop_set) |->
                   IF k \in DOMAIN prop_set /\ ~Taken(old, k) THEN Some(prop_set[k])
                   ELSE old.p[k]]]),
   errors |-> st.errors \o DupValueErrors(old, choice, values)
              \o DupPropErrors(choice, SetToSeq({k \in DOMAIN prop_set : Taken(old, k)}))]

AssignChoice(st, choice, values, prop_set) ==
  AssignTo(st, choice, values, prop_set, ChoiceOf(st.branch, choice))

RECURSIVE AssignChoices(_, _, _, _, _)
AssignChoices(st, choices, i, values, prop_set) ==
  IF i > Len(choices) THEN st
  ELSE AssignChoices(AssignChoice(st, choices[i], values, prop_set), choices,
                     i + 1, values, prop_set)

CookAll(raw) == [i \in 1..Len(raw) |-> cook_raw_string(raw[i]).val]

\* the choice set add_choice assigns to: field is an optional field name
\* (None: the component-scope set)
ChoiceSetOf(entry, field) ==
  IF IsNone(field) THEN entry.c
  ELSE IF Get(field) \in DOMAIN entry.f THEN entry.f[Get(field)]
  ELSE EmptyDict

AddChoiceStore(entry, field, done) ==
  [errors |-> done.errors,
   entry |-> IF IsNone(field) THEN [entry EXCEPT !.c = done.branch]
             ELSE [entry EXCEPT !.f = Put(@, Get(field), done.branch)]]

AddChoiceAssign(entry, field, choices, args) ==
  AddChoiceStore(entry, field,
                 AssignChoices([branch |-> ChoiceSetOf(entry, field),
                                errors |-> args.errors],
                               choices, 1, args.values, args.prop_set))

AddChoiceCooked(entry, field, choices, raw_args) ==
  IF \E i \in 1..Len(choices) : choices[i] = ""
  THEN [errors |-> <<Err("Empty choice identifier", << >>)>>, entry |-> entry]
  ELSE AddChoiceAssign(entry, field, choices,
                       AddChoiceArgs([errors |-> << >>, values |-> << >>,
                                      prop_set |-> EmptyDict],
                                     raw_args, 1, ~IsNone(field)))

AddChoiceSplit(entry, field, raw_names, raw_args) ==
  IF ~raw_names.ok
  THEN [errors |-> <<Err("Choice identifiers splitter error: " \o raw_names.err, << >>)>>,
        entry |-> entry]
  ELSE IF ~raw_args.ok
  THEN [errors |-> <<Err("Choice arguments splitter error: " \o raw_args.err, << >>)>>,
        entry |-> entry]
  ELSE AddChoiceCooked(entry, field, CookAll(raw_names.val), raw_args.val)

\* add_choice on the vardict entry of one component; field is an optional
\* field name (None: component scope).  The entry comes back as the call
\* leaves it, also when errors are returned.
add_choice(entry, raw_choice_name, raw_choice_def, field) ==
  AddChoiceSplit(entry, field, split_raw_str(raw_choice_name, ",", FALSE),
                 split_raw_str(raw_choice_def, " ", TRUE))

Pseudo == {Key_DEFAULT, Key_STANDIN}

\* the uuids of the components of an aspect, and the aspects
UuidsOf(vardict, aspect) == {u \in DOMAIN vardict : vardict[u].a = aspect}
AspectsOf(vardict) == {vardict[u].a : u \in DOMAIN vardict}

EntryChoices(entry) ==
  ((DOMAIN entry.c) \cup UNION {DOMAIN entry.f[fld] : fld \in DOMAIN entry.f})
  \ Pseudo

\* aspect -> the choices of the aspect (the order of the lists, the order of
\* first declaration, is not kept: nothing the engine computes depends on it)
get_choice_dict(vardict) ==
  [aspect \in AspectsOf(vardict) |->
     UNION {EntryChoices(vardict[u]) : u \in UuidsOf(vardict, aspect)}]

-----------------------------------------------------------------------------
(* Finalizing a choice set *)

\* a choice's entry before the default's value is considered: a choice the
\* branch does not hold takes the stand-in's value and properties
FlatValueNoDefault(vardict_branch, choice) ==
  IF choice \in DOMAIN vardict_branch THEN vardict_branch[choice]
  ELSE IF Key_STANDIN \in DOMAIN vardict_branch
       THEN vardict_branch[Key_STANDIN]
  ELSE NewChoice

\* a value that is None takes the default's value
WithDefaultValue(vardict_branch, own) ==
  IF Key_DEFAULT \in DOMAIN vardict_branch /\ IsNone(own.v)
  THEN [own EXCEPT !.v = vardict_branch[Key_DEFAULT].v]
  ELSE own

\* a choice's entry after the first loop of finalize_vardict_branch
FlatValue(vardict_branch, choice) ==
  WithDefaultValue(vardict_branch, FlatValueNoDefault(vardict_branch, choice))

Stated(flat, choice, prop_code) ==
  prop_code \in DOMAIN flat[choice].p /\ ~IsNone(flat[choice].p[prop_code])

DefaultPropValueNoImplicit(vardict_branch, flat, prop_code) ==
  IF /\ Key_DEFAULT \in DOMAIN vardict_branch
     /\ prop_code \in DOMAIN vardict_branch[Key_DEFAULT].p
     /\ ~IsNone(vardict_branch[Key_DEFAULT].p[prop_code])
  THEN vardict_branch[Key_DEFAULT].p[prop_code]
  ELSE None

\* the implicit default of a property: the opposite of the one state the
\* choices use
ImplicitDefault(choices_with_true, choices_with_false) ==
  IF choices_with_false > 0 /\ choices_with_true = 0 THEN Some(TRUE)
  ELSE IF choices_with_false = 0 /\ choices_with_true > 0 THEN Some(FALSE)
  ELSE None

\* the optional default state of a property: the default choice's, or the
\* implicit one
DefaultPropValue(vardict_branch, flat, prop_code) ==
  IF /\ Key_DEFAULT \in DOMAIN vardict_branch
     /\ prop_code \in DOMAIN vardict_branch[Key_DEFAULT].p
     /\ ~IsNone(vardict_branch[Key_DEFAULT].p[prop_code])
  THEN vardict_branch[Key_DEFAULT].p[prop_code]
  ELSE ImplicitDefault(
         Cardinality({c \in DOMAIN flat :
                        Stated(flat, c, prop_code) /\ Get(flat[c].p[prop_code])}),
         Cardinality({c \in DOMAIN flat :
                        Stated(flat, c, prop_code) /\ ~Get(flat[c].p[prop_code])}))

\* the error for an aspect where defined of total choices have a value
ValueErrors(defined, total) ==
  IF ~(defined = 0 \/ defined = total)
  THEN <<Err(MsgMixedValue, <<IntToStr(defined), IntToStr(total - defined)>>)>>
  ELSE << >>

PropError(prop_code, defined, total) ==
  Err(MsgMixedProp, <<prop_code, IntToStr(defined), IntToStr(total - defined)>>)

\* the number of choices with a state for property k
Defined(done, all_aspect_choices, k) ==
  Cardinality({c \in all_aspect_choices : ~IsNone(done[c].p[k])})

MixedProp(done, all_aspect_choices, k) ==
  ~(Defined(done, all_aspect_choices, k) \in {0, Cardinality(all_aspect_choices)})

PropErrors(done, all_aspect_choices, mixed) ==
  [i \in 1..Len(mixed) |->
     PropError(mixed[i], Defined(done, all_aspect_choices, mixed[i]),
               Cardinality(all_aspect_choices))]

\* a choice's entry after the property defaults are filled in
FinalChoice(vardict_branch, flat, codes, c) ==
  [v |-> flat[c].v,
   p |-> [k \in (DOMAIN flat[c].p) \cup Range(codes) |->
            IF k \in Range(codes) /\ ~Stated(flat, c, k)
            THEN DefaultPropValue(vardict_branch, flat, k)
            ELSE flat[c].p[k]]]

\* FinalizeDone without the removal of the pseudo-choices
FinalizeDoneKeepPseudo(vardict_branch, all_aspect_choices, codes, verr, done) ==
  [errors |-> verr \o PropErrors(done, all_aspect_choices,
                                 SelectSeq(codes, LAMBDA k :
                                   MixedProp(done, all_aspect_choices, k))),
   branch |-> [c \in all_aspect_choices \cup (DOMAIN vardict_branch) |->
                 IF c \in all_aspect_choices THEN done[c] ELSE vardict_branch[c]]]

FinalizeDone(vardict_branch, all_aspect_choices, codes, verr, done) ==
  [errors |-> verr \o PropErrors(done, all_aspect_choices,
                                 SelectSeq(codes, LAMBDA k :
                                   MixedProp(done, all_aspect_choices, k))),
   branch |-> [c \in all_aspect_choices \cup ((DOMAIN vardict_branch) \ Pseudo) |->
                 IF c \in all_aspect_choices THEN done[c] ELSE vardict_branch[c]]]

FinalizeFlat(vardict_branch, all_aspect_choices, codes, flat) ==
  FinalizeDone(vardict_branch, all_aspect_choices, codes,
               ValueErrors(Cardinality({c \in all_aspect_choices : ~IsNone(flat[c].v)}),
                           Cardinality(all_aspect_choices)),
               [c \in all_aspect_choices |->
                  FinalChoice(vardict_branch, flat, codes, c)])

\* the property codes finalize_vardict_branch walks: fp_props is the
\* optional dict of the component's properties (None: a field-scope branch)
PropCodes(fp_props) ==
  IF IsNone(fp_props) THEN << >> ELSE SetToSeq(DOMAIN Get(fp_props))

\* all_aspect_choices is the set of the aspect's choices.  The stand-in's
\* property dict is shared by the choices that take it; the sharing cannot
\* be seen, as they are all given the same states.
finalize_vardict_branch(vardict_branch, all_aspect_choices, fp_props) ==
  FinalizeFlat(vardict_branch, all_aspect_choices, PropCodes(fp_props),
               [c \in all_aspect_choices |-> FlatValue(vardict_branch, c)])

-----------------------------------------------------------------------------
(* build_vardict *)

BErr(uuid, ctx, e) == [uuid |-> uuid, ctx |-> ctx, msg |-> e.msg, args |-> e.args]
BErrs(uuid, ctx, es) == [i \in 1..Len(es) |-> BErr(uuid, ctx, es[i])]
BStrErrs(uuid, ctx, es) ==
  [i \in 1..Len(es) |-> BErr(uuid, ctx, Err(es[i], << >>))]

CtxField == "Field parser"
CtxCmpParser == "Component-scope record parser"
CtxCmp == "Component record"
CtxFldCombined == "Combined field record"
CtxFldSimple == "Simple field record"
CtxFinCmp == "In component record"
CtxFinFld == "In field record for target field"
CtxFinFldOf(field) == CtxFinFld \o " '" \o field \o "'"
CtxModel == "Model"

MsgMissingAspect == "Component record(s) found, but missing an aspect identifier"
MsgNoChoices == "Aspect has no choices defined"
MsgClassify == "Cannot classify current solder paste relative clearance"
MsgNoProp == "Cannot match property to footprint"

\* add_choice for one choice set: <<names, content>> (the field is
\* fixed_field) or <<field, names, content>>
AddChoiceSet(entry, cs, fixed_field) ==
  add_choice(entry, cs[Len(cs) - 1], cs[Len(cs)],
             IF Len(cs) = 3 THEN Some(cs[1]) ELSE fixed_field)

\* add the choice sets of a list in turn, up to and with the first that
\* returns errors
RECURSIVE AddChoiceSets(_, _, _, _, _, _)
RECURSIVE AddChoiceSetsNext(_, _, _, _, _, _)
AddChoiceSets(entry, sets, i, uuid, ctx, fixed_field) ==
  IF i > Len(sets) THEN [entry |-> entry, errors |-> << >>, broke |-> FALSE]
  ELSE AddChoiceSetsNext(AddChoiceSet(entry, sets[i], fixed_field),
                         sets, i, uuid, ctx, fixed_field)
AddChoiceSetsNext(r, sets, i, uuid, ctx, fixed_field) ==
  IF r.errors # << >>
  THEN [entry |-> r.entry, errors |-> BErrs(Some(uuid), ctx, r.errors),
        broke |-> TRUE]
  ELSE AddChoiceSets(r.entry, sets, i + 1, uuid, ctx, fixed_field)

Fail(st, es) == [st EXCEPT !.errors = @ \o es]

\* the component's entry is stored with its choices, and its field-scope
\* records are kept for the second loop
BuildAdded(st, uuid, pf, added) ==
  [vardict |-> Put(st.vardict, uuid, added.entry),
   errors |-> st.errors \o added.errors,
   fld_dict |-> Put(st.fld_dict, uuid, <<pf.fld_rule_strings, pf.fld_choice_sets>>)]

BuildAspect(st, uuid, pf, aspect, choice_sets) ==
  IF IsNone(aspect) \/ aspect = Some("")
  THEN IF choice_sets # << >>
       THEN Fail(st, BStrErrs(Some(uuid), CtxCmp, <<MsgMissingAspect>>))
       ELSE st
  ELSE BuildAdded(st, uuid, pf,
                  AddChoiceSets([a |-> Get(aspect), c |-> EmptyDict, f |-> EmptyDict],
                                choice_sets, 1, uuid, CtxCmp, None))

BuildParsedRule(st, uuid, pf, pr) ==
  IF pr.errors # << >>
  THEN Fail(st, BStrErrs(Some(uuid), CtxCmpParser, pr.errors))
  ELSE IF Len(pr.aspects) > 1
  THEN Fail(st, BStrErrs(Some(uuid), CtxCmp, <<"Found multiple aspect identifiers">>))
  ELSE IF Len(pr.aspects) = 1 /\ ~IsNone(pf.aspect) /\ pf.aspect # Some("")
  THEN Fail(st, BStrErrs(Some(uuid), CtxCmp,
                         <<"Conflicting aspect identifier specification styles">>))
  ELSE BuildAspect(st, uuid, pf,
                   IF Len(pr.aspects) = 1 THEN Some(pr.aspects[1]) ELSE pf.aspect,
                   pr.choice_sets \o pf.cmp_choice_sets)

BuildParsedFields(st, uuid, pf) ==
  IF pf.errors # << >> THEN Fail(st, BStrErrs(Some(uuid), CtxField, pf.errors))
  ELSE BuildParsedRule(st, uuid, pf, parse_rule_str(pf.cmp_rule_string))

\* the first loop of build_vardict, for one component: st is
\* [vardict, errors, fld_dict]
BuildComponent(st, fpdict, uuid, base) ==
  BuildParsedFields(st, uuid, parse_rule_fields(fpdict[uuid], base))

RECURSIVE BuildComponents(_, _, _, _)
BuildComponents(st, fpdict, uuid, base) ==
  IF uuid > Len(fpdict) THEN st
  ELSE BuildComponents(BuildComponent(st, fpdict, uuid, base), fpdict, uuid + 1, base)

BuildFieldAdded(st, added) ==
  [entry |-> added.entry, errors |-> st.errors \o added.errors]

BuildFieldParsed(st, uuid, field, pr) ==
  IF pr.errors # << >>
  THEN Fail(st, BStrErrs(Some(uuid), CtxFldCombined, pr.errors))
  ELSE IF pr.aspects # << >>
  THEN Fail(st, BStrErrs(Some(uuid), CtxFldCombined,
         <<"Combined field record contains what looks like an aspect identifier">>))
  ELSE IF field \in DOMAIN st.entry.f
  THEN Fail(st, BStrErrs(Some(uuid), CtxFldCombined,
                         <<"Multiple assignments for target field">>))
  ELSE BuildFieldAdded(st, AddChoiceSets(st.entry, pr.choice_sets, 1, uuid,
                                         CtxFldCombined, Some(field)))

\* one combined field record of a component: st is [entry, errors]
BuildFieldRule(st, uuid, field, rule_str) ==
  IF rule_str = "" THEN st
  ELSE BuildFieldParsed(st, uuid, field, parse_rule_str(Some(rule_str)))

RECURSIVE BuildFieldRules(_, _, _, _)
BuildFieldRules(st, uuid, rules, i) ==
  IF i > Len(rules) THEN st
  ELSE BuildFieldRules(BuildFieldRule(st, uuid, rules[i][1], rules[i][2]),
                       uuid, rules, i + 1)

BuildFieldsSimple(st, uuid, combined_errors, simple) ==
  [st EXCEPT !.vardict[uuid] = simple.entry,
             !.errors = @ \o combined_errors \o simple.errors]

BuildFieldsCombined(st, uuid, combined) ==
  BuildFieldsSimple(st, uuid, combined.errors,
                    AddChoiceSets(combined.entry, st.fld_dict[uuid][2], 1, uuid,
                                  CtxFldSimple, None))

\* the field-scope loop of build_vardict, for one component
BuildFields(st, uuid) ==
  BuildFieldsCombined(st, uuid,
                      BuildFieldRules([entry |-> st.vardict[uuid], errors |-> << >>],
                                      uuid, st.fld_dict[uuid][1], 1))

RECURSIVE BuildFieldsAll(_, _)
BuildFieldsAll(st, uuids) ==
  IF uuids = << >> THEN st
  ELSE BuildFieldsAll(BuildFields(st, uuids[1]), Tail(uuids))

RECURSIVE Ascending(_)
RECURSIVE AscendingFrom(_, _)
Ascending(S) ==
  IF S = {} THEN << >>
  ELSE AscendingFrom(S, CHOOSE x \in S : \A y \in S : x <= y)
AscendingFrom(S, m) == <<m>> \o Ascending(S \ {m})

\* the uuids of a dict in insertion order, which is the order of fpdict
Uuids(d) == Ascending(DOMAIN d)

RECURSIVE FieldErrors(_, _, _, _)
FieldErrors(uuid, fins, flds, i) ==
  IF i > Len(flds) THEN << >>
  ELSE BErrs(Some(uuid), CtxFinFldOf(flds[i]), fins[flds[i]].errors)
       \o FieldErrors(uuid, fins, flds, i + 1)

\* the field-scope choice sets of a component are finalized: fins maps its
\* target fields to what finalize_vardict_branch returned
BuildFinalizeFlds(st, uuid, cmp_branch, fins) ==
  [st EXCEPT !.vardict[uuid] = [a |-> @.a, c |-> cmp_branch,
                                f |-> [fld \in DOMAIN fins |-> fins[fld].branch]],
             !.errors = @ \o FieldErrors(uuid, fins, SetToSeq(DOMAIN fins), 1)]

BuildFinalizeCmp(st, uuid, all, cmp) ==
  IF cmp.errors # << >>
  THEN [st EXCEPT !.vardict[uuid].c = cmp.branch,
                  !.errors = @ \o BErrs(Some(uuid), CtxFinCmp, cmp.errors)]
  ELSE BuildFinalizeFlds(st, uuid, cmp.branch,
                         [fld \in DOMAIN st.vardict[uuid].f |->
                            finalize_vardict_branch(st.vardict[uuid].f[fld], all, None)])

\* the finalizing loop of build_vardict, for one component
BuildFinalize(st, uuid, fpdict, all_choices) ==
  BuildFinalizeCmp(st, uuid, all_choices[st.vardict[uuid].a],
                   finalize_vardict_branch(st.vardict[uuid].c,
                                           all_choices[st.vardict[uuid].a],
                                           Some(fpdict[uuid].p)))

RECURSIVE BuildFinalizeAll(_, _, _, _)
BuildFinalizeAll(st, uuids, fpdict, all_choices) ==
  IF uuids = << >> THEN st
  ELSE BuildFinalizeAll(BuildFinalize(st, uuids[1], fpdict, all_choices),
                        Tail(uuids), fpdict, all_choices)

\* the solder paste check made whatever the choices say
ClassifyErrorsAlways(vardict, fpdict, uuid) ==
  IF IsNone(paste_state_from_ratio(fpdict[uuid].pr))
  THEN <<BErr(Some(uuid), CtxModel, Err(MsgClassify, << >>))>>
  ELSE << >>

\* the solder paste check of build_vardict, for one component
ClassifyErrors(vardict, fpdict, uuid) ==
  IF /\ \E choice \in DOMAIN vardict[uuid].c :
          /\ PropCode_SOLDER \in DOMAIN vardict[uuid].c[choice].p
          /\ ~IsNone(vardict[uuid].c[choice].p[PropCode_SOLDER])
     /\ IsNone(paste_state_from_ratio(fpdict[uuid].pr))
  THEN <<BErr(Some(uuid), CtxModel, Err(MsgClassify, << >>))>>
  ELSE << >>

RECURSIVE ClassifyErrorsAll(_, _, _)
ClassifyErrorsAll(vardict, fpdict, uuids) ==
  IF uuids = << >> THEN << >>
  ELSE ClassifyErrors(vardict, fpdict, uuids[1])
       \o ClassifyErrorsAll(vardict, fpdict, Tail(uuids))

NoPropErrorsFor(uuid, missing) ==
  [i \in 1..Len(missing) |->
     BErr(Some(uuid), CtxModel, Err(MsgNoProp, <<missing[i][1], missing[i][2]>>))]

\* the property check of build_vardict, for one component
NoPropErrors(vardict, fpdict, uuid) ==
  NoPropErrorsFor(uuid,
    SetToSeq({<<choice, prop_id>> \in
                (DOMAIN vardict[uuid].c) \X
                UNION {DOMAIN vardict[uuid].c[c].p : c \in DOMAIN vardict[uuid].c} :
                /\ prop_id \in DOMAIN vardict[uuid].c[choice].p
                /\ prop_id \notin DOMAIN fpdict[uuid].p}))

RECURSIVE NoPropErrorsAll(_, _, _)
NoPropErrorsAll(vardict, fpdict, uuids) ==
  IF uuids = << >> THEN << >>
  ELSE NoPropErrors(vardict, fpdict, uuids[1])
       \o NoPropErrorsAll(vardict, fpdict, Tail(uuids))

SignatureCmpOnly(vardict, aspect, choice) ==
  [uuid \in UuidsOf(vardict, aspect) |-> [c |-> vardict[uuid].c[choice]]]

\* what the ambiguity check compares for a choice of an aspect:
\* uuid -> the choice's component-scope entry and its entry for every field
Signature(vardict, aspect, choice) ==
  [uuid \in UuidsOf(vardict, aspect) |->
     [c |-> vardict[uuid].c[choice],
      f |-> [fld \in DOMAIN vardict[uuid].f |-> vardict[uuid].f[fld][choice]]]]

AmbiguityReport(st, aspect, choice_a, ambiguous) ==
  IF choice_a \in st.reported \/ ambiguous = << >> THEN st
  ELSE [errors |-> Append(st.errors,
                          BErr(None, CtxModel,
                               Err(MsgAmbiguity,
                                   <<aspect>> \o Reverse(Append(ambiguous, choice_a))))),
        reported |-> st.reported \cup Range(ambiguous) \cup {choice_a}]

\* the row of choices[i] in the ambiguity matrix: st is [errors, reported]
AmbiguityRow(st, vardict, aspect, choices, i) ==
  AmbiguityReport(st, aspect, choices[i],
                  SelectSeq(Reverse(SubSeq(choices, i + 1, Len(choices))),
                            LAMBDA choice_b :
                              /\ choice_b \notin st.reported
                              /\ Signature(vardict, aspect, choices[i])
                                 = Signature(vardict, aspect, choice_b)))

RECURSIVE AmbiguityRows(_, _, _, _, _)
AmbiguityRows(st, vardict, aspect, choices, i) ==
  IF i > Len(choices) THEN st
  ELSE AmbiguityRows(AmbiguityRow(st, vardict, aspect, choices, i),
                     vardict, aspect, choices, i + 1)

\* no ambiguity check
NoAmbiguityErrors(vardict, all_choices, aspects) == << >>

RECURSIVE AmbiguityErrors(_, _, _)
AmbiguityErrors(vardict, all_choices, aspects) ==
  IF aspects = << >> THEN << >>
  ELSE AmbiguityRows([errors |-> << >>, reported |-> {}], vardict, aspects[1],
                     SortedNat(all_choices[aspects[1]]), 1).errors
       \o AmbiguityErrors(vardict, all_choices, Tail(aspects))

EmptyAspectErrorsFor(empties) ==
  [i \in 1..Len(empties) |-> BErr(None, CtxModel, Err(MsgNoChoices, <<empties[i]>>))]

EmptyAspectErrors(all_choices) ==
  EmptyAspectErrorsFor(SelectSeq(SetToSeq(DOMAIN all_choices),
                                 LAMBDA a : all_choices[a] = {}))

\* BuildResult handing out the model also when there are errors
BuildResultKeepModel(f_base, raw, vardict, errors) ==
  [vardict |-> Some(vardict), errors |-> errors, base |-> f_base, raw |-> raw,
   final |-> vardict]

BuildResult(f_base, raw, vardict, errors) ==
  [vardict |-> IF errors # << >> THEN None ELSE Some(vardict),
   errors |-> errors, base |-> f_base, raw |-> raw, final |-> vardict]

\* the ambiguity check runs only on a model without errors
BuildChecked(f_base, raw, vardict, all_choices, errors) ==
  BuildResult(f_base, raw, vardict,
              IF errors = << >>
              THEN AmbiguityErrors(vardict, all_choices, SortedNat(DOMAIN all_choices))
              ELSE errors)

BuildFinalized(fpdict, f_base, raw, all_choices, finalized) ==
  BuildChecked(f_base, raw, finalized.vardict, all_choices,
               finalized.errors
               \o ClassifyErrorsAll(finalized.vardict, fpdict, Uuids(finalized.vardict))
               \o NoPropErrorsAll(finalized.vardict, fpdict, Uuids(finalized.vardict)))

BuildChoices(fpdict, f_base, uuids, fielded, all_choices) ==
  BuildFinalized(fpdict, f_base, fielded.vardict, all_choices,
                 BuildFinalizeAll([fielded EXCEPT !.errors =
                                     @ \o EmptyAspectErrors(all_choices)],
                                  uuids, fpdict, all_choices))

BuildFielded(fpdict, f_base, uuids, fielded) ==
  BuildChoices(fpdict, f_base, uuids, fielded, get_choice_dict(fielded.vardict))

BuildParsed(fpdict, f_base, parsed) ==
  BuildFielded(fpdict, f_base, Uuids(parsed.fld_dict),
               BuildFieldsAll(parsed, Uuids(parsed.fld_dict)))

BuildWithBase(fpdict, f_base) ==
  IF IsNone(f_base)
  THEN [vardict |-> Some(EmptyDict), errors |-> << >>,
        base |-> Some(FieldIDOptions[1]), raw |-> EmptyDict, final |-> EmptyDict]
  ELSE BuildParsed(fpdict, f_base,
                   BuildComponents([vardict |-> EmptyDict, errors |-> << >>,
                                    fld_dict |-> EmptyDict],
                                   fpdict, 1, Get(f_base)))

\* build_vardict with the base token as it finds it (an optional string):
\* the model (None when there are errors), the errors, the base token as
\* it leaves it, raw, the model as it stands after the parsing loops and
\* before the choice sets are finalized, and final, the model as it stands
\* when the checks are made and before it is withheld for errors
\* build_vardict looking for the base token on every call
BuildVardictRescan(fpdict, FieldID_BASE) ==
  BuildWithBase(fpdict, determine_fieldID_base(fpdict))

build_vardict(fpdict, FieldID_BASE) ==
  BuildWithBase(fpdict, IF IsNone(FieldID_BASE) THEN determine_fieldID_base(fpdict)
                        ELSE FieldID_BASE)

-----------------------------------------------------------------------------
(* Resolving the current selection and applying a selection                *)
(*                                                                         *)
(* A selection maps aspects to optional choices.  The mismatches of a      *)
(* choice are a set of labels (the code builds a list and only asks       *)
(* whether it is empty).  A change record is                               *)
(*   [uuid, ref, what, id, old, new]                                       *)
(* with what one of "value", "prop", "field"; the message text of the code *)
(* is a rendering of these.                                                *)

\* the property ids of a component in the order build_fpdict inserts them:
\* F, B, P, S, then the 3D models by index
ModelIndex(prop_id) == StrToInt(SubSeq(prop_id, 3, Len(prop_id)), 0)

RECURSIVE ModelIds(_)
RECURSIVE ModelIdsFrom(_, _)
ModelIds(S) ==
  IF S = {} THEN << >>
  ELSE ModelIdsFrom(S, CHOOSE x \in S : \A y \in S : ModelIndex(x) <= ModelIndex(y))
ModelIdsFrom(S, m) == <<m>> \o ModelIds(S \ {m})

PropIds(props) ==
  SelectSeq(<<PropCode_FIT, PropCode_BOM, PropCode_POS, PropCode_SOLDER>>,
            LAMBDA id : id \in DOMAIN props)
  \o ModelIds({id \in DOMAIN props : split_prop_id(id).indexed})

PropMismatch(choice_prop, fp_prop) ==
  ~IsNone(choice_prop) /\ ~IsNone(fp_prop) /\ choice_prop # fp_prop

mismatches_fp_choice(fpdict_branch, vardict_choice_branch) ==
  (IF ~IsNone(vardict_choice_branch.v) /\ fpdict_branch.v # Get(vardict_choice_branch.v)
   THEN {<<"value">>} ELSE {})
  \cup
  {<<"prop", prop_id>> : prop_id \in
     {id \in DOMAIN fpdict_branch.p :
        PropMismatch(prop_state(vardict_choice_branch.p, id),
                     prop_state(fpdict_branch.p, id))}}

FieldMismatch(choice_field_value, fp_field_value) ==
  ~IsNone(choice_field_value) /\ Get(choice_field_value) # fp_field_value

mismatches_fp_choice_fld(fp_fields, vardict_fld_branch, choice) ==
  {<<"field", field, choice>> : field \in
     {fld \in DOMAIN vardict_fld_branch :
        FieldMismatch(vardict_fld_branch[fld][choice].v, FieldText(fp_fields, fld))}}

\* EliminateChoices without the field-scope comparison
EliminateChoicesCmpOnly(fpdict, vardict, uuid, remaining) ==
  {choice \in remaining :
     mismatches_fp_choice(fpdict[uuid], vardict[uuid].c[choice]) # {}}

\* the choices of an aspect that one component eliminates
EliminateChoices(fpdict, vardict, uuid, remaining) ==
  {choice \in remaining :
     \/ mismatches_fp_choice(fpdict[uuid], vardict[uuid].c[choice]) # {}
     \/ mismatches_fp_choice_fld(fpdict[uuid].F, vardict[uuid].f, choice) # {}}

\* the elimination loop of detect_current_choices: what is left of choices
RECURSIVE Eliminate(_, _, _, _)
Eliminate(fpdict, vardict, uuids, choices) ==
  IF uuids = << >> THEN choices
  ELSE Eliminate(fpdict, vardict, Tail(uuids),
                 [choices EXCEPT ![vardict[uuids[1]].a] =
                    @ \ EliminateChoices(fpdict, vardict, uuids[1], @)])

SurvivingChoices(fpdict, vardict) ==
  Eliminate(fpdict, vardict, Uuids(vardict), get_choice_dict(vardict))

\* the selection read off the choices that are left
SelectionOf(choices) ==
  [aspect \in DOMAIN choices |->
     IF Cardinality(choices[aspect]) = 1
     THEN Some(CHOOSE c \in choices[aspect] : TRUE)
     ELSE None]

detect_current_choices(fpdict, vardict) ==
  SelectionOf(SurvivingChoices(fpdict, vardict))

Change(uuid, ref, what, id, old, new) ==
  [uuid |-> uuid, ref |-> ref, what |-> what, id |-> id, old |-> old, new |-> new]

\* a solder paste switch that leaves the margin ratio as it is
NewPasteRatioSame(old_pratio, old_pmode, new_state) ==
  [ok |-> TRUE, pr |-> old_pratio]

NewPasteRatioOf(old_pratio, old_pmode, new_state) ==
  IF new_state
  THEN IF old_pmode = PasteMode_OFF_WAS_INHERIT
       THEN [ok |-> TRUE, pr |-> None]
       ELSE IF old_pmode = PasteMode_OFF_WAS_RATIO
       THEN [ok |-> TRUE, pr |-> Some(FSub(Get(old_pratio), PasteRatio_OFFSET))]
       ELSE [ok |-> FALSE, pr |-> None]
  ELSE IF old_pmode = PasteMode_ON_IS_INHERIT
       THEN [ok |-> TRUE, pr |-> Some(PasteRatio_INHERIT)]
       ELSE IF old_pmode = PasteMode_ON_WITH_RATIO
       THEN [ok |-> TRUE, pr |-> Some(FAdd(Get(old_pratio), PasteRatio_OFFSET))]
       ELSE [ok |-> FALSE, pr |-> None]

\* the new margin ratio of a solder paste switch: ok is FALSE where the
\* code raises ValueError
NewPasteRatio(old_pratio, new_state) ==
  NewPasteRatioOf(old_pratio, paste_mode_from_ratio(old_pratio), new_state)

\* ApplyValue without the write to the snapshot
ApplyValueNoWrite(st, uuid, choice_branch, dry_run) ==
  IF ~IsNone(choice_branch.v) /\ st.fpdict[uuid].v # Get(choice_branch.v)
  THEN [st EXCEPT
          !.changes = Append(@, Change(uuid, st.fpdict[uuid].R, "value", "",
                                       st.fpdict[uuid].v, Get(choice_branch.v)))]
  ELSE st

\* the value step of apply_selection for one component: st is
\* [fpdict, changes, ok]
ApplyValue(st, uuid, choice_branch, dry_run) ==
  LET new_value == choice_branch.v
      old_value == st.fpdict[uuid].v
  IN  IF ~IsNone(new_value) /\ old_value # Get(new_value)
      THEN [st EXCEPT
              !.changes = Append(@, Change(uuid, st.fpdict[uuid].R, "value", "",
                                           old_value, Get(new_value))),
              !.fpdict[uuid].v = IF dry_run THEN @ ELSE Get(new_value)]
      ELSE st

\* ApplyPaste without the write of the margin ratio
ApplyPasteRatioKept(st, uuid, new_state, paste, dry_run) ==
  IF ~paste.ok THEN [st EXCEPT !.ok = FALSE]
  ELSE [st EXCEPT
          !.changes = Append(@, Change(uuid, st.fpdict[uuid].R, "prop", PropCode_SOLDER,
                                       st.fpdict[uuid].pr, paste.pr)),
          !.fpdict[uuid].p[PropCode_SOLDER] = IF dry_run THEN @ ELSE new_state]

\* the solder paste switch of apply_selection: paste is the new margin ratio
ApplyPaste(st, uuid, new_state, paste, dry_run) ==
  IF ~paste.ok THEN [st EXCEPT !.ok = FALSE]
  ELSE [st EXCEPT
          !.changes = Append(@, Change(uuid, st.fpdict[uuid].R, "prop", PropCode_SOLDER,
                                       st.fpdict[uuid].pr, paste.pr)),
          !.fpdict[uuid].p[PropCode_SOLDER] = IF dry_run THEN @ ELSE new_state,
          !.fpdict[uuid].pr = IF dry_run THEN @ ELSE paste.pr]

\* one property of one component: new_state and old_state are optional
ApplyProp(st, uuid, prop_id, new_state, old_state, dry_run) ==
  IF IsNone(new_state) \/ IsNone(old_state) \/ new_state = old_state
  THEN st
  ELSE IF prop_id = PropCode_SOLDER
  THEN ApplyPaste(st, uuid, new_state,
                  NewPasteRatio(st.fpdict[uuid].pr, Get(new_state)), dry_run)
  ELSE [st EXCEPT
          !.changes = Append(@, Change(uuid, st.fpdict[uuid].R, "prop", prop_id,
                              convert_attrib_prop_state(prop_id, Get(old_state)),
                              convert_attrib_prop_state(prop_id, Get(new_state)))),
          !.fpdict[uuid].p[prop_id] = IF dry_run THEN @ ELSE new_state]

\* the property loop of apply_selection for one component
RECURSIVE ApplyProps(_, _, _, _, _)
ApplyProps(st, uuid, choice_branch, dry_run, prop_ids) ==
  IF prop_ids = << >> \/ ~st.ok THEN st
  ELSE ApplyProps(ApplyProp(st, uuid, prop_ids[1], choice_branch.p[prop_ids[1]],
                            st.fpdict[uuid].p[prop_ids[1]], dry_run),
                  uuid, choice_branch, dry_run, Tail(prop_ids))

\* ApplyField without the write to the snapshot
ApplyFieldNoWrite(st, uuid, field, new_field_value, old_field_value, dry_run) ==
  IF ~IsNone(new_field_value) /\ old_field_value # Get(new_field_value)
  THEN [st EXCEPT
          !.changes = Append(@, Change(uuid, st.fpdict[uuid].R, "field", field,
                                       old_field_value, Get(new_field_value)))]
  ELSE st

\* ApplyField without the change record
ApplyFieldUnrecorded(st, uuid, field, new_field_value, old_field_value, dry_run) ==
  IF ~IsNone(new_field_value) /\ old_field_value # Get(new_field_value)
  THEN [st EXCEPT
          !.fpdict[uuid].F = IF dry_run THEN @
                             ELSE SetField(@, field, Get(new_field_value))]
  ELSE st

ApplyField(st, uuid, field, new_field_value, old_field_value, dry_run) ==
  IF ~IsNone(new_field_value) /\ old_field_value # Get(new_field_value)
  THEN [st EXCEPT
          !.changes = Append(@, Change(uuid, st.fpdict[uuid].R, "field", field,
                                       old_field_value, Get(new_field_value))),
          !.fpdict[uuid].F = IF dry_run THEN @
                             ELSE SetField(@, field, Get(new_field_value))]
  ELSE st

\* the field loop of apply_selection for one component
RECURSIVE ApplyFields(_, _, _, _, _, _)
ApplyFields(st, uuid, fld_branch, selected_choice, dry_run, fields) ==
  IF fields = << >> \/ ~st.ok THEN st
  ELSE ApplyFields(ApplyField(st, uuid, fields[1],
                              fld_branch[fields[1]][selected_choice].v,
                              FieldText(st.fpdict[uuid].F, fields[1]), dry_run),
                   uuid, fld_branch, selected_choice, dry_run, Tail(fields))

\* value, properties and fields of the selected choice of one component,
\* whose vardict entry is entry
ApplyChoice(st, uuid, entry, selected_choice, dry_run) ==
  ApplyFields(ApplyProps(ApplyValue(st, uuid, entry.c[selected_choice], dry_run),
                         uuid, entry.c[selected_choice], dry_run,
                         PropIds(st.fpdict[uuid].p)),
              uuid, entry.f, selected_choice, dry_run, SortedNat(DOMAIN entry.f))

\* the body of the loop of apply_selection, for one component
ApplyComponent(st, vardict, selection, dry_run, uuid) ==
  IF \/ ~st.ok
     \/ vardict[uuid].a \notin DOMAIN selection
     \/ IsNone(selection[vardict[uuid].a])
  THEN st
  ELSE ApplyChoice(st, uuid, vardict[uuid], Get(selection[vardict[uuid].a]), dry_run)

RECURSIVE ApplyLoop(_, _, _, _, _)
ApplyLoop(st, vardict, selection, dry_run, uuids) ==
  IF uuids = << >> THEN st
  ELSE ApplyLoop(ApplyComponent(st, vardict, selection, dry_run, uuids[1]),
                 vardict, selection, dry_run, Tail(uuids))

\* apply_selection: the snapshot as the call leaves it, the changes it
\* returns, and ok FALSE where it raises (the snapshot then holds what was
\* written before the raise)
apply_selection(fpdict, vardict, selection, dry_run) ==
  ApplyLoop([fpdict |-> fpdict, changes |-> << >>, ok |-> TRUE],
            vardict, selection, dry_run, Uuids(vardict))

-----------------------------------------------------------------------------
(* The board, its snapshot, and the operations of the engine               *)

\* a footprint of the board as build_fpdict reads it: models holds the
\* m_Show flag of each 3D model
Footprint(ref, fields, value, dnp, pratio, models) ==
  [ref |-> ref, fields |-> fields, value |-> value, dnp |-> dnp,
   exclude_bom |-> FALSE, exclude_pos |-> FALSE, pratio |-> pratio,
   models |-> models]

RECURSIVE ModelProps(_, _, _)
ModelProps(props, models, i) ==
  IF i > Len(models) THEN props
  ELSE ModelProps(apply_indexed_prop(props, Some(PropCode_MODEL), Some(i),
                                     Some(Some(models[i]))),
                  models, i + 1)

\* the snapshot entry of one footprint
FpEntry(fp) ==
  [R |-> fp.ref,
   F |-> SelectSeq(fp.fields, LAMBDA f : field_accepted(f[1])),
   v |-> fp.value,
   p |-> ModelProps(
           (PropCode_FIT :> Some(convert_attrib_prop_state(PropCode_FIT, fp.dnp)))
           @@ (PropCode_BOM :> Some(convert_attrib_prop_state(PropCode_BOM, fp.exclude_bom)))
           @@ (PropCode_POS :> Some(convert_attrib_prop_state(PropCode_POS, fp.exclude_pos)))
           @@ (PropCode_SOLDER :> paste_state_from_ratio(fp.pratio)),
           fp.models, 1),
   pr |-> fp.pratio]

\* uuids are the places of the footprints on the board, so no two
\* footprints share one
build_fpdict(board) == [uuid \in 1..Len(board) |-> FpEntry(board[uuid])]

\* the engine before a board is read
EngineIdle ==
  /\ theFpdict = << >>
  /\ theBase = None
  /\ theVardict = None
  /\ theErrors = << >>
  /\ theRaw = EmptyDict
  /\ theFinal = EmptyDict
  /\ theSelection = None
  /\ theDryRun = FALSE
  /\ theChanges = << >>
  /\ theRaised = FALSE
  /\ theDetected = None
  /\ fpBefore = << >>
  /\ fpBefore2 = << >>
  /\ reapplied = FALSE
  /\ pc = "idle"

\* the snapshot of one of boards has been taken
InitEngine(boards) ==
  /\ theFpdict \in {build_fpdict(b) : b \in boards}
  /\ theBase = None
  /\ theVardict = None
  /\ theErrors = << >>
  /\ theRaw = EmptyDict
  /\ theFinal = EmptyDict
  /\ theSelection = None
  /\ theDryRun = FALSE
  /\ theChanges = << >>
  /\ theRaised = FALSE
  /\ theDetected = None
  /\ fpBefore = theFpdict
  /\ fpBefore2 = theFpdict
  /\ reapplied = FALSE
  /\ pc = "snapshot"

BuildStore(b) ==
  /\ theVardict' = b.vardict
  /\ theErrors' = b.errors
  /\ theBase' = b.base
  /\ theRaw' = b.raw
  /\ theFinal' = b.final

\* vardict, errors = build_vardict(fpdict)
Build ==
  /\ pc = "snapshot"
  /\ BuildStore(build_vardict(theFpdict, theBase))
  /\ pc' = "built"
  /\ UNCHANGED <<strvars, infovars, theFpdict, applyvars, theDetected>>

SelectionsOf(choices) ==
  {sel \in [DOMAIN choices ->
              {None} \cup {Some(c) : c \in UNION {choices[a] : a \in DOMAIN choices}}] :
     \A a \in DOMAIN choices : sel[a] = None \/ Get(sel[a]) \in choices[a]}
  \cup {EmptyDict}

\* the selections handed to apply_selection: a choice or None for every
\* aspect of the model, and the selection that names no aspect
Selections(vardict) == SelectionsOf(get_choice_dict(vardict))

\* a call that raised returns no changes
ApplyStore(r) ==
  /\ theFpdict' = r.fpdict
  /\ theChanges' = IF r.ok THEN r.changes ELSE << >>
  /\ theRaised' = ~r.ok

\* changes = apply_selection(fpdict, vardict, sel, dry)
Apply(sel, dry) ==
  /\ pc \in {"built", "applied", "detected"}
  /\ theVardict # None
  /\ ApplyStore(apply_selection(theFpdict, Get(theVardict), sel, dry))
  /\ theSelection' = Some(sel)
  /\ theDryRun' = dry
  /\ fpBefore' = theFpdict
  /\ fpBefore2' = fpBefore
  /\ reapplied' = (pc # "built" /\ theSelection = Some(sel) /\ ~theDryRun)
  /\ theDetected' = None
  /\ pc' = "applied"
  /\ UNCHANGED <<strvars, infovars, buildvars>>

\* selection = detect_current_choices(fpdict, vardict)
Detect ==
  /\ pc \in {"built", "applied"}
  /\ theVardict # None
  /\ theDetected' = Some(detect_current_choices(theFpdict, Get(theVardict)))
  /\ pc' = "detected"
  /\ UNCHANGED <<strvars, infovars, theFpdict, buildvars, applyvars>>

-----------------------------------------------------------------------------
(* Applying selections to a board *)

RatioMinusTenth == FNeg(PasteRatio_INHERIT_EPS)   \* the double -0.1

\* margin ratios of the footprint whose solder paste is switched: the
\* inherited ratio, explicit ratios of the ON band, the OFF marker of an
\* inherited ratio, and shifted ratios of the OFF band
PasteRatios ==
  {None, Some(FltInt(0)), Some(RatioMinusTenth), Some(FltInt(100)),
   Some(PasteRatio_INHERIT), Some(PasteRatio_OFFSET), Some(FltInt(-41900))}

PasteBoard(pratio) ==
  <<Footprint("R1", << <<"Var", "X A(+S) B(-S)">> >>, "10k", FALSE, pratio, << >>)>>

ValueBoard ==
  <<Footprint("R1", << <<"Var", "X A(1k +F) B(2k) C(3k)">>, <<"T", "t2">>,
                       <<"T.Var", "A(t1) B(t2) C(t1)">> >>,
              "2k", FALSE, None, <<TRUE>>),
    Footprint("R2", << <<"Var.Aspect", "X">>, <<"Var(A,C)", "-M1">>,
                       <<"Var(B)", "+M1">> >>,
              "1u", FALSE, None, <<FALSE>>)>>

TwoAspectBoard ==
  <<Footprint("R1", << <<"Var", "X A(1k) B(2k)">> >>, "10k", FALSE, None, << >>),
    Footprint("R2", << <<"Var", "Y P(+F -S) Q(-F +S)">> >>, "1u", FALSE,
              Some(RatioMinusTenth), << >>)>>

\* R1 with a value, a property and a field text by choice of aspect X, R2
\* of aspect Y
ThreeKindsBoard ==
  <<Footprint("R1", << <<"Var", "X A(1k +B) B(2k -B)">>, <<"T", "t0">>,
                       <<"T.Var", "A(t1) B(t2)">> >>,
              "10k", FALSE, None, << >>),
    Footprint("R2", << <<"Var", "Y P(+F) Q(-F)">> >>, "1u", FALSE, None, << >>)>>

ApplyBoards ==
  {PasteBoard(pratio) : pratio \in PasteRatios}
  \cup {ValueBoard, TwoAspectBoard, ThreeKindsBoard}

InitApply ==
  /\ TokenizerIdle
  /\ VariantIdle
  /\ InitEngine(ApplyBoards)

NextApply ==
  \/ Build
  \/ \E sel \in (IF theVardict = None THEN {} ELSE Selections(Get(theVardict))) :
       \E dry \in BOOLEAN : Apply(sel, dry)
  \/ Detect

SpecApply == InitApply /\ [][NextApply]_vars

-----------------------------------------------------------------------------
(* Properties of applying selections *)

\* the components whose solder paste the last call found switched off with
\* an inherited ratio and was told to switch on
PasteRestored ==
  {uuid \in DOMAIN fpBefore :
     /\ uuid \in DOMAIN Get(theVardict)
     /\ fpBefore[uuid].pr = Some(PasteRatio_INHERIT)
     /\ fpBefore[uuid].p[PropCode_SOLDER] = Some(FALSE)
     /\ Get(theVardict)[uuid].a \in DOMAIN Get(theSelection)
     /\ ~IsNone(Get(theSelection)[Get(theVardict)[uuid].a])
     /\ prop_state(Get(theVardict)[uuid].c[Get(Get(theSelection)[Get(theVardict)[uuid].a])].p,
                   PropCode_SOLDER) = Some(TRUE)}

PasteChanges(uuid) ==
  SelectSeq(theChanges, LAMBDA ch : ch.uuid = uuid /\ ch.what = "prop"
                                    /\ ch.id = PropCode_SOLDER)

\* C2: a second apply_selection with the selection of a non-dry-run
\* apply_selection returns no changes and leaves the snapshot as it is; a
\* non-dry-run apply_selection that switches solder paste on from the
\* inherited-OFF ratio -42420.0 stores the ratio None and returns exactly
\* one change record for it.
C2_ApplyIdempotent ==
  /\ reapplied => (~theRaised /\ theChanges = << >> /\ theFpdict = fpBefore)
  /\ (pc = "applied" /\ ~theDryRun) =>
       \A uuid \in PasteRestored :
         /\ ~theRaised
         /\ theFpdict[uuid].pr = None
         /\ Len(PasteChanges(uuid)) = 1
         /\ PasteChanges(uuid)[1].new = None

\* solder paste was switched on from the inherited-OFF ratio, and the same
\* selection was applied again
C2_Witness ==
  /\ reapplied
  /\ pc = "applied"
  /\ Len(fpBefore2) = 1
  /\ fpBefore2[1].pr = Some(PasteRatio_INHERIT)
  /\ fpBefore2[1].p[PropCode_SOLDER] = Some(FALSE)
  /\ fpBefore[1].pr = None
  /\ fpBefore[1].p[PropCode_SOLDER] = Some(TRUE)
  /\ theChanges = << >>
  /\ theFpdict = fpBefore

\* the components whose solder paste the last two calls switched and
\* switched back
PasteSwitchedTwice ==
  {uuid \in DOMAIN theFpdict :
     /\ ~IsNone(fpBefore2[uuid].p[PropCode_SOLDER])
     /\ fpBefore[uuid].p[PropCode_SOLDER] # fpBefore2[uuid].p[PropCode_SOLDER]
     /\ theFpdict[uuid].p[PropCode_SOLDER] = fpBefore2[uuid].p[PropCode_SOLDER]}

\* C3: two non-dry-run apply_selection calls that switch the solder paste
\* of a component and switch it back (ON->OFF->ON or OFF->ON->OFF) leave
\* the component with the margin ratio it had before the two calls.
C3_PasteRoundTrip ==
  pc = "applied" =>
    \A uuid \in PasteSwitchedTwice : theFpdict[uuid].pr = fpBefore2[uuid].pr

-----------------------------------------------------------------------------
(* Resolving the selection of a board *)

\* a board with one aspect of three choices, spread over two footprints,
\* in the live state given: the value, the DNP flag and the text of field T
\* of R1, and the visibility of the 3D model of R2
DetectBoard(value, dnp, text, show) ==
  <<Footprint("R1", << <<"Var", "X A(1k +F) B(2k) C(3k)">>, <<"T", text>>,
                       <<"T.Var", "A(t1) B(t2) C(t1)">> >>,
              value, dnp, None, <<TRUE>>),
    Footprint("R2", << <<"Var.Aspect", "X">>, <<"Var(A,C)", "-M1">>,
                       <<"Var(B)", "+M1">> >>,
              "1u", FALSE, None, <<show>>)>>

DetectBoards ==
  {DetectBoard(value, dnp, text, show) :
     value \in {"1k", "2k", "3k", "10k"}, dnp \in BOOLEAN,
     text \in {"t1", "t2", "t3"}, show \in BOOLEAN}
  \cup {TwoAspectBoard}

\* a footprint without rules
PlainBoard(value) == <<Footprint("R1", << >>, value, FALSE, None, << >>)>>

Unstated == [k \in {PropCode_FIT, PropCode_BOM, PropCode_POS, PropCode_SOLDER} |-> None]

\* models for PlainBoard that build_vardict does not produce, as it rejects
\* equivalent choices: detect_current_choices takes any model, and only
\* such models leave more than one choice of an aspect
LooseModels ==
  {<<[a |-> "X",
      c |-> ("A" :> [v |-> None, p |-> Unstated]) @@ ("B" :> [v |-> None, p |-> Unstated]),
      f |-> EmptyDict]>>,
   <<[a |-> "X",
      c |-> ("A" :> [v |-> Some("1k"), p |-> Unstated])
            @@ ("B" :> [v |-> Some("1k"), p |-> Unstated])
            @@ ("C" :> [v |-> Some("2k"), p |-> Unstated]),
      f |-> EmptyDict]>>}

\* a snapshot and a model are at hand
InitLoose ==
  /\ theFpdict \in {build_fpdict(PlainBoard(value)) : value \in {"1k", "2k"}}
  /\ theVardict \in {Some(m) : m \in LooseModels}
  /\ theBase = None
  /\ theErrors = << >>
  /\ theRaw = EmptyDict
  /\ theFinal = EmptyDict
  /\ theSelection = None
  /\ theDryRun = FALSE
  /\ theChanges = << >>
  /\ theRaised = FALSE
  /\ theDetected = None
  /\ fpBefore = theFpdict
  /\ fpBefore2 = theFpdict
  /\ reapplied = FALSE
  /\ pc = "built"

InitDetect ==
  /\ TokenizerIdle
  /\ VariantIdle
  /\ (InitEngine(DetectBoards) \/ InitLoose)

NextDetect == Build \/ Detect

SpecDetect == InitDetect /\ [][NextDetect]_vars

\* the claim's rule of elimination, for a choice and a component: an
\* explicit value, property state or field-scope value of the choice
\* differs from what the snapshot holds
Differs(uuid, choice) ==
  \/ /\ ~IsNone(Get(theVardict)[uuid].c[choice].v)
     /\ Get(Get(theVardict)[uuid].c[choice].v) # theFpdict[uuid].v
  \/ \E id \in DOMAIN Get(theVardict)[uuid].c[choice].p :
       /\ ~IsNone(Get(theVardict)[uuid].c[choice].p[id])
       /\ Get(theVardict)[uuid].c[choice].p[id] # theFpdict[uuid].p[id]
  \/ \E fld \in DOMAIN Get(theVardict)[uuid].f :
       /\ ~IsNone(Get(theVardict)[uuid].f[fld][choice].v)
       /\ Get(Get(theVardict)[uuid].f[fld][choice].v) # FieldText(theFpdict[uuid].F, fld)

Survivors(aspect) ==
  {choice \in get_choice_dict(Get(theVardict))[aspect] :
     \A uuid \in UuidsOf(Get(theVardict), aspect) : ~Differs(uuid, choice)}

\* C4: detect_current_choices returns for every aspect of the model the
\* one choice that is not eliminated, and None when none or more than one
\* is left; a choice is eliminated iff on some component of the aspect an
\* explicit value, property state or field-scope value of the choice
\* differs from the snapshot.
C4_DetectSurvivor ==
  pc = "detected" =>
    /\ DOMAIN Get(theDetected) = AspectsOf(Get(theVardict))
    /\ \A aspect \in AspectsOf(Get(theVardict)) :
         /\ Cardinality(Survivors(aspect)) = 1
              => Get(theDetected)[aspect] \in {Some(c) : c \in Survivors(aspect)}
         /\ Cardinality(Survivors(aspect)) # 1 => Get(theDetected)[aspect] = None

\* a built model of three choices of which exactly one, B, matches the
\* board on both footprints, the others failing by a field text alone
C4_Witness ==
  /\ pc = "detected"
  /\ Len(theFpdict) = 2
  /\ theRaw # EmptyDict
  /\ get_choice_dict(Get(theVardict)) = ("X" :> {"A", "B", "C"})
  /\ Survivors("X") = {"B"}
  /\ Get(theDetected) = ("X" :> Some("B"))

-----------------------------------------------------------------------------
(* Building the model of a board *)

ValueArgs == {"", "1k", "2k"}
PropArgs == {"", "+F", "-F"}

\* R1 gives choices A and B, a default and a stand-in a value or none;
\* choice C is declared by the component-scope record of R2 alone
ValuesBoard(a, b, default, standin) ==
  <<Footprint("R1", << <<"Var", "X A(" \o a \o ") B(" \o b \o ")" \o default \o standin>> >>,
              "10k", FALSE, None, << >>),
    Footprint("R2", << <<"Var", "X A(+F +B) B(+F -B) C(-F -B)">>, <<"T", "t0">>,
                       <<"T.Var", "A(t1) B(t2) ?(t3)">> >>,
              "1u", FALSE, None, << >>)>>

ValuesBoards ==
  {ValuesBoard(a, b, default, standin) :
     a \in ValueArgs, b \in ValueArgs,
     default \in {"", " *()", " *(9k)"}, standin \in {"", " ?()", " ?(7k)"}}

\* the same for the choice set of target field T of R1
FieldBoard(a, b, default, standin) ==
  <<Footprint("R1", << <<"Var", "X A(1k) B(2k) C(3k)">>, <<"T", "t0">>,
                       <<"T.Var", "A(" \o a \o ") B(" \o b \o ")" \o default \o standin>> >>,
              "10k", FALSE, None, << >>)>>

FieldBoards ==
  {FieldBoard(a, b, default, standin) :
     a \in {"", "t1"}, b \in {"", "t1", "t2"},
     default \in {"", " *()", " *(t9)"}, standin \in {"", " ?()", " ?(t7)"}}

\* R1 gives choices A and B, a default and a stand-in a state of property
\* F or none, and C none; choice D is declared by R2 alone
PropsBoard(a, b, default, standin) ==
  <<Footprint("R1", << <<"Var", "X A(" \o a \o ") B(" \o b \o ") C()" \o default \o standin>> >>,
              "10k", FALSE, None, << >>),
    Footprint("R2", << <<"Var", "X A(1k) B(2k) C(3k) D(4k)">> >>,
              "1u", FALSE, None, << >>)>>

PropsBoards ==
  {PropsBoard(a, b, default, standin) :
     a \in PropArgs, b \in PropArgs,
     default \in {"", " *()", " *(+F)", " *(-F)"}, standin \in {"", " ?()", " ?(-F)"}}

\* boards the builder rejects or finds nothing on
OddBoards ==
  {PlainBoard("1k"),
   <<Footprint("R1", << <<"Note", "X A(1k) B(2k)">> >>, "1k", FALSE, None, << >>)>>,
   <<Footprint("R1", << <<"Var", "">> >>, "1k", FALSE, None, << >>)>>,
   <<Footprint("R1", << <<"Var", "X A(+S) B(-S)">> >>, "1k", FALSE, Some(FltInt(500)), << >>)>>,
   <<Footprint("R1", << <<"Var", "X A(+M1) B(-M1)">> >>, "1k", FALSE, None, << >>)>>,
   <<Footprint("R1", << <<"Var", "A(1k) B(2k)">> >>, "1k", FALSE, None, << >>)>>,
   <<Footprint("R1", << <<"Var", "X A(1k) A(2k)">> >>, "1k", FALSE, None, << >>)>>,
   <<Footprint("R1", << <<"Var", "X A(1k">> >>, "1k", FALSE, None, << >>)>>,
   <<Footprint("R1", << <<"Var", "X">> >>, "1k", FALSE, None, << >>)>>,
   <<Footprint("R1", << <<"Var", "X A(1k) B(2k)">>, <<"Q.Var", "A(q1) B(q2)">> >>,
               "1k", FALSE, None, << >>)>>,
   <<Footprint("R1", << <<"T", "t0">>, <<"T.Var", "A(t1) B(t2)">> >>,
               "1k", FALSE, None, << >>)>>,
   <<Footprint("R1", << <<"T", "t0">>, <<"T.Var(A)", "t1">>, <<"T.Var(B)", "t2">> >>,
               "1k", FALSE, None, << >>)>>,
   <<Footprint("R1", << <<"Var(A)", "1k">>, <<"Var(B)", "2k">> >>,
               "1k", FALSE, None, << >>)>>,
   <<Footprint("R1", << <<"Var", "X A(+F -F) B(+F)">> >>, "1k", FALSE, None, << >>)>>,
   <<Footprint("R1", << <<"Var", "X A(+F-F) B(+F)">> >>, "1k", FALSE, None, << >>)>>,
   <<Footprint("R1", << <<"Var", "X A(+F) A(-F) B(+F)">> >>, "1k", FALSE, None, << >>)>>,
   <<Footprint("R1", << <<"Var", "X A(-!) A,B(+b)">> >>, "1k", FALSE, None, << >>)>>,
   <<Footprint("R1", << <<"Var.Aspect", "X">>, <<"T", "t0">>, <<"T.Var", "A(t1) B(t2)">> >>,
               "1k", FALSE, None, << >>)>>}

\* four choices with a value each on R1, where D has its own text for
\* field T or that of the others, and a state of property F each on R2
ChoicesBoard(a, b, c, d, text, states) ==
  <<Footprint("R1", << <<"Var", "X A(" \o a \o ") B(" \o b \o ") C(" \o c
                                 \o ") D(" \o d \o ")">>,
                       <<"T", "t0">>,
                       <<"T.Var", "A(t1) B(t1) C(t1) D(" \o text \o ")">> >>,
              "10k", FALSE, None, << >>),
    Footprint("R2", << <<"Var", states>> >>, "1u", FALSE, None, << >>)>>

ChoicesBoards ==
  {ChoicesBoard(a, b, c, d, text, states) :
     a \in {"1k", "2k"}, b \in {"1k", "2k"}, c \in {"1k", "2k"}, d \in {"1k", "2k"},
     text \in {"t1", "t2"},
     states \in {"X A(+F) B(+F) C(-F) D(-F)", "X A(+F) B(+F) C(+F) D(+F)"}}

BuildBoards ==
  ValuesBoards \cup FieldBoards \cup PropsBoards \cup ChoicesBoards \cup OddBoards

InitBuild ==
  /\ TokenizerIdle
  /\ VariantIdle
  /\ InitEngine(BuildBoards)

NextBuild == Build

SpecBuild == InitBuild /\ [][NextBuild]_vars

\* C6: build_vardict returns None for the model exactly when it returns
\* errors; when no field of the board matches a base token it returns the
\* empty model and no errors.
C6_ModelOrErrors ==
  pc = "built" =>
    /\ (theVardict = None) <=> (theErrors # << >>)
    /\ BaseHits(theFpdict) = {} => (theVardict = Some(EmptyDict) /\ theErrors = << >>)

\* a board without a rule field gave the empty model and no errors
C6_Witness ==
  /\ pc = "built"
  /\ BaseHits(theFpdict) = {}
  /\ \E u \in DOMAIN theFpdict : theFpdict[u].F # << >>
  /\ theVardict = Some(EmptyDict)
  /\ theErrors = << >>

\* the names a component's record declares, pseudo-choices included
Declared(entry) ==
  (DOMAIN entry.c) \cup UNION {DOMAIN entry.f[fld] : fld \in DOMAIN entry.f}

\* the choices of an aspect, read off the records as parsed
AspectChoices(aspect) ==
  UNION {Declared(theRaw[u]) : u \in {w \in DOMAIN theRaw : theRaw[w].a = aspect}}
  \ {Key_DEFAULT, Key_STANDIN}

\* the choice sets of a component are named by an optional target field:
\* None names the component-scope set
SetIds(entry) == {None} \cup {Some(fld) : fld \in DOMAIN entry.f}
ChoiceSet(entry, sid) == IF IsNone(sid) THEN entry.c ELSE entry.f[Get(sid)]

ValueAllOrNone(set) ==
  \/ \A c \in DOMAIN set : ~IsNone(set[c].v)
  \/ \A c \in DOMAIN set : IsNone(set[c].v)

HasState(set, c, id) == id \in DOMAIN set[c].p /\ ~IsNone(set[c].p[id])

PropsAllOrNone(set) ==
  \A id \in UNION {DOMAIN set[c].p : c \in DOMAIN set} :
    \/ \A c \in DOMAIN set : HasState(set, c, id)
    \/ \A c \in DOMAIN set : ~HasState(set, c, id)

\* C7: in a model build_vardict returns, every choice set of every
\* component holds exactly the choices of the component's aspect and
\* neither pseudo-choice; its value is defined for all choices or for none,
\* and so is each property id.
C7_ModelShape ==
  (pc = "built" /\ theVardict # None) =>
    \A uuid \in DOMAIN Get(theVardict) :
      \A sid \in SetIds(Get(theVardict)[uuid]) :
        /\ DOMAIN ChoiceSet(Get(theVardict)[uuid], sid)
             = AspectChoices(Get(theVardict)[uuid].a)
        /\ ValueAllOrNone(ChoiceSet(Get(theVardict)[uuid], sid))
        /\ PropsAllOrNone(ChoiceSet(Get(theVardict)[uuid], sid))

\* a model was returned for records with a default and a stand-in, one
\* choice declared by the other component alone, and a field-scope set
C7_Witness ==
  /\ pc = "built"
  /\ theVardict # None
  /\ \E uuid \in DOMAIN theRaw :
       /\ Key_DEFAULT \in DOMAIN theRaw[uuid].c
       /\ Key_STANDIN \in DOMAIN theRaw[uuid].c
       /\ AspectChoices(theRaw[uuid].a) \ DOMAIN theRaw[uuid].c # {}
       /\ ~IsNone(Get(theVardict)[uuid].c["A"].v)
  /\ \E uuid \in DOMAIN theRaw : theRaw[uuid].f # EmptyDict

\* the choice sets that build_vardict finalizes: the component-scope set of
\* every component, and its field-scope sets when no error is found in the
\* component-scope set
MixedIn(uuid, ctx, msg) ==
  \E i \in 1..Len(theErrors) :
    /\ theErrors[i].uuid = Some(uuid)
    /\ theErrors[i].ctx = ctx
    /\ theErrors[i].msg = msg

CtxOfSet(sid) == IF IsNone(sid) THEN CtxFinCmp ELSE CtxFinFldOf(Get(sid))

MixedValueIn(uuid, sid) == MixedIn(uuid, CtxOfSet(sid), MsgMixedValue)

\* a mixed-definition error is reported for the set, or the set is a
\* field-scope set and one is reported for the component-scope set
MixedReported(uuid, sid) ==
  \/ MixedValueIn(uuid, sid)
  \/ /\ ~IsNone(sid)
     /\ (MixedIn(uuid, CtxFinCmp, MsgMixedValue) \/ MixedIn(uuid, CtxFinCmp, MsgMixedProp))

OwnValue(set, c) == c \in DOMAIN set /\ ~IsNone(set[c].v)
DefaultValue(set) == Key_DEFAULT \in DOMAIN set /\ ~IsNone(set[Key_DEFAULT].v)

\* the entry a choice goes by in a set: its own, or the stand-in's when
\* the set does not declare the choice
GoesBy(set, c) ==
  IF c \in DOMAIN set THEN Some(c)
  ELSE IF Key_STANDIN \in DOMAIN set THEN Some(Key_STANDIN)
  ELSE None
StatedValue(set, c) == ~IsNone(GoesBy(set, c)) /\ ~IsNone(set[Get(GoesBy(set, c))].v)

\* the statement of C5 with "defines a value" read as the choice's own
\* entry in the set holding a value
C5_MixedValuesOwn ==
  pc = "built" =>
    \A uuid \in DOMAIN theRaw : \A sid \in SetIds(theRaw[uuid]) :
      /\ ( /\ \E c \in AspectChoices(theRaw[uuid].a) : OwnValue(ChoiceSet(theRaw[uuid], sid), c)
           /\ \E c \in AspectChoices(theRaw[uuid].a) : ~OwnValue(ChoiceSet(theRaw[uuid], sid), c)
           /\ ~DefaultValue(ChoiceSet(theRaw[uuid], sid)) )
         => MixedReported(uuid, sid)
      /\ DefaultValue(ChoiceSet(theRaw[uuid], sid)) =>
           /\ ~MixedValueIn(uuid, sid)
           /\ theVardict # None =>
                \A c \in AspectChoices(theRaw[uuid].a) :
                  ChoiceSet(Get(theVardict)[uuid], sid)[c].v
                    = IF OwnValue(ChoiceSet(theRaw[uuid], sid), c)
                      THEN ChoiceSet(theRaw[uuid], sid)[c].v
                      ELSE ChoiceSet(theRaw[uuid], sid)[Key_DEFAULT].v

\* C5: in a choice set, a choice that the set does not declare goes by the
\* stand-in '?' of the set, if there is one.  When some choices of the
\* aspect have a value that way and others do not, and no default '*' has
\* a value, build_vardict reports a mixed-definition error (for the set,
\* or for the component-scope set when that is in error and the set is
\* field-scope); when a default '*' has a value, no such error is
\* reported for the set, and in a returned model every choice without a
\* value has the default's and the others keep theirs.
C5_MixedValues ==
  pc = "built" =>
    \A uuid \in DOMAIN theRaw : \A sid \in SetIds(theRaw[uuid]) :
      /\ ( /\ \E c \in AspectChoices(theRaw[uuid].a) : StatedValue(ChoiceSet(theRaw[uuid], sid), c)
           /\ \E c \in AspectChoices(theRaw[uuid].a) : ~StatedValue(ChoiceSet(theRaw[uuid], sid), c)
           /\ ~DefaultValue(ChoiceSet(theRaw[uuid], sid)) )
         => MixedReported(uuid, sid)
      /\ DefaultValue(ChoiceSet(theRaw[uuid], sid)) =>
           /\ ~MixedValueIn(uuid, sid)
           /\ theVardict # None =>
                \A c \in AspectChoices(theRaw[uuid].a) :
                  ChoiceSet(Get(theVardict)[uuid], sid)[c].v
                    = IF StatedValue(ChoiceSet(theRaw[uuid], sid), c)
                      THEN ChoiceSet(theRaw[uuid], sid)[Get(GoesBy(ChoiceSet(theRaw[uuid], sid), c))].v
                      ELSE ChoiceSet(theRaw[uuid], sid)[Key_DEFAULT].v

\* a model was returned where, in one set, one choice keeps its value, one
\* has the stand-in's and one the default's
C5_Witness ==
  /\ pc = "built"
  /\ theVardict # None
  /\ \E uuid \in DOMAIN theRaw : \E sid \in SetIds(theRaw[uuid]) :
       /\ DefaultValue(ChoiceSet(theRaw[uuid], sid))
       /\ \E c1, c2, c3 \in AspectChoices(theRaw[uuid].a) :
            /\ OwnValue(ChoiceSet(theRaw[uuid], sid), c1)
            /\ c2 \in DOMAIN ChoiceSet(theRaw[uuid], sid)
            /\ ~OwnValue(ChoiceSet(theRaw[uuid], sid), c2)
            /\ c3 \notin DOMAIN ChoiceSet(theRaw[uuid], sid)
            /\ StatedValue(ChoiceSet(theRaw[uuid], sid), c3)
            /\ ChoiceSet(Get(theVardict)[uuid], sid)[c2].v
                 = ChoiceSet(theRaw[uuid], sid)[Key_DEFAULT].v
            /\ ChoiceSet(Get(theVardict)[uuid], sid)[c3].v
                 = ChoiceSet(theRaw[uuid], sid)[Key_STANDIN].v
            /\ ChoiceSet(theRaw[uuid], sid)[Key_STANDIN].v
                 # ChoiceSet(theRaw[uuid], sid)[Key_DEFAULT].v

MixedPropIn(uuid, id) ==
  \E i \in 1..Len(theErrors) :
    /\ theErrors[i].uuid = Some(uuid)
    /\ theErrors[i].ctx = CtxFinCmp
    /\ theErrors[i].msg = MsgMixedProp
    /\ theErrors[i].args[1] = id

ExplicitDefault(set, id) == Key_DEFAULT \in DOMAIN set /\ HasState(set, Key_DEFAULT, id)

\* the state a choice's own entry gives a property, None when it gives none
OwnState(set, c, id) ==
  IF c \in DOMAIN set /\ HasState(set, c, id) THEN set[c].p[id] ELSE None

\* the same with a choice the set does not declare going by the stand-in
StatedState(set, c, id) ==
  IF ~IsNone(GoesBy(set, c)) /\ HasState(set, Get(GoesBy(set, c)), id)
  THEN set[Get(GoesBy(set, c))].p[id]
  ELSE None

\* the property ids of a component
PropIdsOf(uuid) == DOMAIN theFpdict[uuid].p

\* the statement of C9 with "states" read as the choice's own entry in the
\* set stating the property
C9_PropDefaultsOwn ==
  pc = "built" =>
    \A uuid \in DOMAIN theRaw : \A id \in PropIdsOf(uuid) :
      /\ ExplicitDefault(theRaw[uuid].c, id) =>
           /\ ~MixedPropIn(uuid, id)
           /\ theVardict # None =>
                \A c \in AspectChoices(theRaw[uuid].a) :
                  IsNone(OwnState(theRaw[uuid].c, c, id)) =>
                    Get(theVardict)[uuid].c[c].p[id] = theRaw[uuid].c[Key_DEFAULT].p[id]
      /\ \A state \in BOOLEAN :
           ( /\ ~ExplicitDefault(theRaw[uuid].c, id)
             /\ \E c \in AspectChoices(theRaw[uuid].a) :
                  OwnState(theRaw[uuid].c, c, id) = Some(state)
             /\ \A c \in AspectChoices(theRaw[uuid].a) :
                  OwnState(theRaw[uuid].c, c, id) # Some(~state) ) =>
             /\ ~MixedPropIn(uuid, id)
             /\ theVardict # None =>
                  \A c \in AspectChoices(theRaw[uuid].a) :
                    IsNone(OwnState(theRaw[uuid].c, c, id)) =>
                      Get(theVardict)[uuid].c[c].p[id] = Some(~state)
      /\ ( /\ ~ExplicitDefault(theRaw[uuid].c, id)
           /\ \A state \in BOOLEAN : \E c \in AspectChoices(theRaw[uuid].a) :
                OwnState(theRaw[uuid].c, c, id) = Some(state)
           /\ \E c \in AspectChoices(theRaw[uuid].a) :
                IsNone(OwnState(theRaw[uuid].c, c, id)) ) =>
           MixedPropIn(uuid, id)

\* C9: in a component-scope choice set, a choice that the set does not
\* declare goes by the stand-in '?' of the set, if there is one.  For a
\* property id of the component: an explicit state on the default '*' is
\* given to every choice that states nothing that way; without an
\* explicit default, if the property is stated one way by at least one
\* choice and the other way by none, every choice that states nothing
\* gets the opposite state; if it is stated both ways, some choice states
\* nothing and there is no explicit default, a mixed-definition error is
\* reported for the property.
C9_PropDefaults ==
  pc = "built" =>
    \A uuid \in DOMAIN theRaw : \A id \in PropIdsOf(uuid) :
      /\ ExplicitDefault(theRaw[uuid].c, id) =>
           /\ ~MixedPropIn(uuid, id)
           /\ theVardict # None =>
                \A c \in AspectChoices(theRaw[uuid].a) :
                  IsNone(StatedState(theRaw[uuid].c, c, id)) =>
                    Get(theVardict)[uuid].c[c].p[id] = theRaw[uuid].c[Key_DEFAULT].p[id]
      /\ \A state \in BOOLEAN :
           ( /\ ~ExplicitDefault(theRaw[uuid].c, id)
             /\ \E c \in AspectChoices(theRaw[uuid].a) :
                  StatedState(theRaw[uuid].c, c, id) = Some(state)
             /\ \A c \in AspectChoices(theRaw[uuid].a) :
                  StatedState(theRaw[uuid].c, c, id) # Some(~state) ) =>
             /\ ~MixedPropIn(uuid, id)
             /\ theVardict # None =>
                  \A c \in AspectChoices(theRaw[uuid].a) :
                    IsNone(StatedState(theRaw[uuid].c, c, id)) =>
                      Get(theVardict)[uuid].c[c].p[id] = Some(~state)
      /\ ( /\ ~ExplicitDefault(theRaw[uuid].c, id)
           /\ \A state \in BOOLEAN : \E c \in AspectChoices(theRaw[uuid].a) :
                StatedState(theRaw[uuid].c, c, id) = Some(state)
           /\ \E c \in AspectChoices(theRaw[uuid].a) :
                IsNone(StatedState(theRaw[uuid].c, c, id)) ) =>
           MixedPropIn(uuid, id)

\* a model was returned where a property stated true by one choice, and
\* by no choice false, is false for a choice that declares nothing about
\* it and for a choice that goes by a stand-in without a state
C9_Witness ==
  /\ pc = "built"
  /\ theVardict # None
  /\ \E uuid \in DOMAIN theRaw :
       /\ ~ExplicitDefault(theRaw[uuid].c, PropCode_FIT)
       /\ Key_STANDIN \in DOMAIN theRaw[uuid].c
       /\ \E c1, c2, c3 \in AspectChoices(theRaw[uuid].a) :
            /\ StatedState(theRaw[uuid].c, c1, PropCode_FIT) = Some(TRUE)
            /\ c2 \in DOMAIN theRaw[uuid].c
            /\ IsNone(StatedState(theRaw[uuid].c, c2, PropCode_FIT))
            /\ c3 \notin DOMAIN theRaw[uuid].c
            /\ Get(theVardict)[uuid].c[c1].p[PropCode_FIT] = Some(TRUE)
            /\ Get(theVardict)[uuid].c[c2].p[PropCode_FIT] = Some(FALSE)
            /\ Get(theVardict)[uuid].c[c3].p[PropCode_FIT] = Some(FALSE)

AmbiguityErrorsOf(aspect) ==
  {i \in 1..Len(theErrors) :
     theErrors[i].msg = MsgAmbiguity /\ theErrors[i].args[1] = aspect}

\* the choices an ambiguity error names
Named(i) == Range(Tail(theErrors[i].args))

\* two choices of an aspect are equivalent: on every component of the
\* aspect they have the same value, the same properties and the same
\* value in every field-scope set
Equivalent(aspect, c1, c2) ==
  \A uuid \in {u \in DOMAIN theFinal : theFinal[u].a = aspect} :
    /\ theFinal[uuid].c[c1].v = theFinal[uuid].c[c2].v
    /\ theFinal[uuid].c[c1].p = theFinal[uuid].c[c2].p
    /\ \A fld \in DOMAIN theFinal[uuid].f :
         theFinal[uuid].f[fld][c1].v = theFinal[uuid].f[fld][c2].v

\* the maximal sets of two or more mutually equivalent choices
Clusters(aspect) ==
  {cluster \in SUBSET AspectChoices(aspect) :
     /\ Cardinality(cluster) >= 2
     /\ \A c1, c2 \in cluster : Equivalent(aspect, c1, c2)
     /\ \A c1 \in cluster : \A c2 \in AspectChoices(aspect) \ cluster :
          ~Equivalent(aspect, c1, c2)}

OtherwiseErrorFree == \A i \in 1..Len(theErrors) : theErrors[i].msg = MsgAmbiguity

\* C8: when nothing else is in error, build_vardict reports exactly one
\* ambiguity error for every maximal set of mutually equivalent choices of
\* an aspect, naming the choices of the set; no choice is named by two
\* ambiguity errors, and choices that are not equivalent are not named
\* together.
C8_AmbiguityClusters ==
  (pc = "built" /\ OtherwiseErrorFree) =>
    \A aspect \in {theFinal[u].a : u \in DOMAIN theFinal} :
      /\ \A cluster \in Clusters(aspect) :
           Cardinality({i \in AmbiguityErrorsOf(aspect) : Named(i) = cluster}) = 1
      /\ \A i \in AmbiguityErrorsOf(aspect) :
           /\ Len(theErrors[i].args) = 1 + Cardinality(Named(i))
           /\ \A c1, c2 \in Named(i) : Equivalent(aspect, c1, c2)
      /\ \A i, j \in AmbiguityErrorsOf(aspect) : i # j => Named(i) \cap Named(j) = {}

\* four choices on two components fall into two pairs of equivalent
\* choices, and two ambiguity errors name one pair each
C8_Witness ==
  /\ pc = "built"
  /\ OtherwiseErrorFree
  /\ Len(theFinal) = 2
  /\ Clusters("X") = {{"A", "B"}, {"C", "D"}}
  /\ Len(theErrors) = 2
  /\ {Named(1), Named(2)} = {{"A", "B"}, {"C", "D"}}

-----------------------------------------------------------------------------
(* The variant table (VariantInfo)                                         *)
(*                                                                         *)
(* The table file is taken as the grid csv.reader makes of it: a list of   *)
(* rows, each a list of cells.  An error is [msg, args], the message text  *)
(* of the code being a rendering of it without the suggestion of a close   *)
(* match.  The hash of the file stands for its content.                    *)

count_empty(item_list) == Cardinality({i \in 1..Len(item_list) : item_list[i] = ""})

Pick(item_list, indexes) == [k \in 1..Len(indexes) |-> item_list[indexes[k]]]

\* every item that was seen before, in the order of the list
count_duplicates(item_list) ==
  Pick(item_list,
       Ascending({i \in 1..Len(item_list) :
                    \E j \in 1..(i - 1) : item_list[j] = item_list[i]}))

\* the row loop of the structure check: n counts from 1, len_prev is
\* optional
RECURSIVE RowErrors(_, _, _)
RowErrors(table, n, len_prev) ==
  IF n > Len(table) THEN << >>
  ELSE IF Len(table[n]) < 2
  THEN <<Err("Row has less than two columns", <<IntToStr(n)>>)>>
  ELSE IF IsNone(len_prev) THEN RowErrors(table, n + 1, Some(Len(table[n])))
  ELSE IF Len(table[n]) # Get(len_prev)
  THEN <<Err("Row has a different number of columns than previous rows",
             <<IntToStr(n), IntToStr(Len(table[n])), IntToStr(Get(len_prev))>>)>>
  ELSE RowErrors(table, n + 1, len_prev)

StructureErrors(table) ==
  IF Len(table) < 2 THEN <<Err("Table has less than two rows", << >>)>>
  ELSE RowErrors(table, 1, None)

TableVariants(table) == [i \in 1..(Len(table) - 1) |-> table[i + 1][1]]
TableAspects(table) == Tail(table[1])

\* the dict of the choice lists by variant: of rows with one name the last
\* is kept
TableChoices(table) ==
  [variant \in {table[i][1] : i \in 2..Len(table)} |->
     Tail(table[CHOOSE i \in 2..Len(table) :
                  /\ table[i][1] = variant
                  /\ \A j \in (i + 1)..Len(table) : table[j][1] # variant])]

EmptyErrors(what, empty) ==
  IF empty # 0 THEN <<Err("Found empty " \o what \o " identifiers", <<IntToStr(empty)>>)>>
  ELSE << >>

DuplicateErrors(what, dups) ==
  IF dups # << >> THEN <<Err("Found duplicate " \o what \o " identifiers", dups)>>
  ELSE << >>

VariantErrors(variants) ==
  EmptyErrors("variant", count_empty(variants))
  \o DuplicateErrors("variant", count_duplicates(variants))

InvalidAspectErrors(invalid) ==
  [i \in 1..Len(invalid) |-> Err("Aspect is invalid", <<invalid[i]>>)]

AspectErrors(aspects, choice_dict) ==
  EmptyErrors("aspect", count_empty(aspects))
  \o DuplicateErrors("aspect", count_duplicates(aspects))
  \o InvalidAspectErrors(SelectSeq(aspects, LAMBDA aspect : aspect \notin DOMAIN choice_dict))

\* the choice check of one variant, from column index on
RECURSIVE RowChoiceErrors(_, _, _, _)
RowChoiceErrors(aspects, choice_list, choice_dict, index) ==
  IF index > Len(aspects) THEN << >>
  ELSE (IF choice_list[index] \notin choice_dict[aspects[index]]
        THEN <<Err("For aspect, choice is invalid", <<aspects[index], choice_list[index]>>)>>
        ELSE << >>)
       \o RowChoiceErrors(aspects, choice_list, choice_dict, index + 1)

RECURSIVE ChoiceErrors(_, _, _, _, _)
ChoiceErrors(variants, aspects, choices, choice_dict, n) ==
  IF n > Len(variants) THEN << >>
  ELSE RowChoiceErrors(aspects, choices[variants[n]], choice_dict, 1)
       \o ChoiceErrors(variants, aspects, choices, choice_dict, n + 1)

\* the assignment check left out
NoIdenticalErrors(choices) == << >>

IdenticalErrors(choices) ==
  IF \E v1, v2 \in DOMAIN choices : v1 # v2 /\ choices[v1] = choices[v2]
  THEN <<Err("Found identical choice assignments for multiple variants", << >>)>>
  ELSE << >>

Rejected(self, errors) == [self |-> self, errors |-> errors]

ReadAssignments(self, table, variants, aspects, choices, errors) ==
  IF errors # << >> THEN Rejected(self, errors)
  ELSE [self |-> [aspects |-> aspects, variants |-> variants, choices |-> choices,
                  hash_at_load |-> Some(table), is_loaded |-> TRUE],
        errors |-> << >>]

ReadChoices(self, table, variants, aspects, choices, errors) ==
  IF errors # << >> THEN Rejected(self, errors)
  ELSE ReadAssignments(self, table, variants, aspects, choices, IdenticalErrors(choices))

ReadAspects(self, table, choice_dict, variants, aspects, errors) ==
  IF errors # << >> THEN Rejected(self, errors)
  ELSE ReadChoices(self, table, variants, aspects, TableChoices(table),
                   ChoiceErrors(variants, aspects, TableChoices(table), choice_dict, 1))

ReadVariants(self, table, choice_dict, variants, errors) ==
  IF errors # << >> THEN Rejected(self, errors)
  ELSE ReadAspects(self, table, choice_dict, variants, TableAspects(table),
                   AspectErrors(TableAspects(table), choice_dict))

ReadTable(self, table, choice_dict, errors) ==
  IF errors # << >> THEN Rejected(self, errors)
  ELSE ReadVariants(self, table, choice_dict, TableVariants(table),
                    VariantErrors(TableVariants(table)))

\* VariantInfo.read_csv on the object self, with the grid in the file
\* (None: no readable file): the object as the call leaves it, and the
\* errors it returns
read_csv(self, file, choice_dict) ==
  IF IsNone(file) THEN Rejected(self, << >>)
  ELSE ReadTable(self, Get(file), choice_dict, StructureErrors(Get(file)))

-----------------------------------------------------------------------------
(* Variant table harness: a table file is read, replaced and read again    *)

\* the longest table file of the harness, in rows
MaxRows == 3

\* the choices by aspect that the reads are checked against
TableChoiceDict == ("X" :> {"A", "B"}) @@ ("Y" :> {"A"})

Tuples(S, width) == [1..width -> S]

HeaderRows ==
  UNION {{<<"">> \o cells : cells \in Tuples({"", "X", "Y", "Z"}, width)} :
         width \in {0, 1, 2}}

VariantRows ==
  UNION {{<<name>> \o cells : name \in {"", "v1", "v2"}, cells \in Tuples({"A", "B"}, width)} :
         width \in {0, 1, 2}}

\* the grids of at most rows rows; what csv.reader gives for a blank line,
\* the row of no cell, is among the rows of the one-row grids
RECURSIVE TablesOf(_)
TablesOf(rows) ==
  IF rows = 0 THEN {<< >>}
  ELSE IF rows = 1 THEN {<< >>} \cup {<<header>> : header \in HeaderRows \cup {<< >>}}
  ELSE TablesOf(rows - 1)
       \cup {table \o <<row>> : table \in {t \in TablesOf(rows - 1) : Len(t) = rows - 1},
                                row \in VariantRows}

Tables == TablesOf(MaxRows)

InitVar ==
  /\ TokenizerIdle
  /\ EngineIdle
  /\ theFile \in {Some(table) : table \in Tables} \cup {None}
  /\ theInfo = NewVariantInfo
  /\ infoErrors = << >>
  /\ infoBefore = NewVariantInfo
  /\ infoPc = "new"

ReadStore(result, stage) ==
  /\ theInfo' = result.self
  /\ infoErrors' = result.errors
  /\ infoBefore' = theInfo
  /\ infoPc' = stage
  /\ UNCHANGED <<theFile, strvars, engvars>>

\* errors = info.read_csv(choice_dict)
ReadCsv ==
  /\ infoPc \in {"new", "edited"}
  /\ ReadStore(read_csv(theInfo, theFile, TableChoiceDict),
               IF infoPc = "new" THEN "read" ELSE "reread")

\* the file of a table that was loaded is rewritten or removed by the user
EditFile ==
  /\ infoPc = "read"
  /\ theInfo.is_loaded
  /\ theFile' \in {Some(table) : table \in Tables} \cup {None}
  /\ theFile' # theFile
  /\ infoPc' = "edited"
  /\ UNCHANGED <<theInfo, infoErrors, infoBefore, strvars, engvars>>

NextVar == ReadCsv \/ EditFile

SpecVar == InitVar /\ [][NextVar]_vars

\* the grid of the file
Grid == Get(theFile)

WellFormed(table) ==
  /\ Len(table) >= 2
  /\ \A n \in 1..Len(table) : Len(table[n]) >= 2
  /\ \A n, m \in 1..Len(table) : Len(table[n]) = Len(table[m])

Repeated(items) == \E i, j \in 1..Len(items) : i # j /\ items[i] = items[j]

NamesOf(table) == [n \in 1..(Len(table) - 1) |-> table[n + 1][1]]
HeadingsOf(table) == [k \in 1..(Len(table[1]) - 1) |-> table[1][k + 1]]
VectorsOf(table) ==
  [n \in 1..(Len(table) - 1) |-> [k \in 1..(Len(table[n + 1]) - 1) |-> table[n + 1][k + 1]]]

BadNames(items) == Repeated(items) \/ \E i \in 1..Len(items) : items[i] = ""

BadCell(table, choice_dict) ==
  \E n \in 2..Len(table) : \E k \in 2..Len(table[n]) :
    /\ table[1][k] \in DOMAIN choice_dict
    /\ table[n][k] \notin choice_dict[table[1][k]]

\* the grid has one of the faults a table is turned down for
Faulty(table, choice_dict) ==
  \/ ~WellFormed(table)
  \/ BadNames(NamesOf(table))
  \/ BadNames(HeadingsOf(table))
  \/ \E k \in 1..Len(HeadingsOf(table)) : HeadingsOf(table)[k] \notin DOMAIN choice_dict
  \/ BadCell(table, choice_dict)
  \/ Repeated(VectorsOf(table))

SameTable(info, other) ==
  /\ info.variants = other.variants
  /\ info.aspects = other.aspects
  /\ info.choices = other.choices
  /\ info.is_loaded = other.is_loaded

HoldsGrid(info, table) ==
  /\ info.variants = NamesOf(table)
  /\ info.aspects = HeadingsOf(table)
  /\ DOMAIN info.choices = {table[n][1] : n \in 2..Len(table)}
  /\ \A n \in 1..Len(NamesOf(table)) : info.choices[NamesOf(table)[n]] = VectorsOf(table)[n]
  /\ info.is_loaded

\* C10: read_csv never accepts a partial table.  After a read of a table
\* file that is there: if the grid has fewer than two rows, a row of fewer
\* than two columns, rows of unequal width, an empty or duplicate variant
\* name, an empty or duplicate aspect name, an aspect name the choice dict
\* does not know, a cell that is no choice of its column's aspect, or two
\* variants of one choice vector, then errors are returned and the variants,
\* aspects, choices and loaded flag of the object are what they were before
\* the call; otherwise no error is returned and the object holds the grid's
\* variants, aspects and choices and is loaded.
C10_ReadAllOrNothing ==
  (infoPc \in {"read", "reread"} /\ ~IsNone(theFile)) =>
    IF Faulty(Grid, TableChoiceDict)
    THEN infoErrors # << >> /\ SameTable(theInfo, infoBefore)
    ELSE infoErrors = << >> /\ HoldsGrid(theInfo, Grid)

\* a table was loaded, the file was then replaced by a well-formed grid of
\* good names whose two variants have one choice vector, and the second read
\* turned it down and left the loaded table in the object
C10_Witness ==
  /\ infoPc = "reread"
  /\ ~IsNone(theFile)
  /\ infoBefore.is_loaded
  /\ WellFormed(Grid)
  /\ ~BadNames(NamesOf(Grid))
  /\ ~BadNames(HeadingsOf(Grid))
  /\ ~BadCell(Grid, TableChoiceDict)
  /\ Repeated(VectorsOf(Grid))
  /\ infoErrors # << >>
  /\ theInfo = infoBefore
  /\ theInfo.variants # NamesOf(Grid)

-----------------------------------------------------------------------------
(* Editing the variant table                                               *)
(*                                                                         *)
(* The dict handed to create_table and add_variant is indexed by aspect    *)
(* and gives one choice per aspect, as is the dict handed to              *)
(* match_variant.  An editing call is [self, result]: the object as the    *)
(* call leaves it and the value it returns.                                *)

Edited(self, result) == [self |-> self, result |-> result]

ChoicesFor(aspects, choice_dict) ==
  [index \in 1..Len(aspects) |-> choice_dict[aspects[index]]]

create_table(self, variant, aspects, choice_dict) ==
  Edited([self EXCEPT !.choices = (variant :> ChoicesFor(aspects, choice_dict)),
                      !.variants = <<variant>>,
                      !.aspects = aspects],
         TRUE)

delete_table(self) ==
  Edited([self EXCEPT !.aspects = << >>, !.variants = << >>, !.choices = EmptyDict],
         TRUE)

\* add_variant without the check of the name
AddVariantUnchecked(self, variant, choice_dict) ==
  Edited([self EXCEPT !.choices = Put(@, variant, ChoicesFor(self.aspects, choice_dict)),
                      !.variants = Append(@, variant)],
         TRUE)

add_variant(self, variant, choice_dict) ==
  IF variant \in Range(self.variants) THEN Edited(self, FALSE)
  ELSE Edited([self EXCEPT !.choices = Put(@, variant, ChoicesFor(self.aspects, choice_dict)),
                           !.variants = Append(@, variant)],
              TRUE)

\* the table after the variant was taken out of choices and variants
VariantRemoved(self) ==
  IF Len(self.variants) = 0 THEN Edited(delete_table(self).self, TRUE)
  ELSE Edited(self, TRUE)

delete_variant(self, variant) ==
  IF variant \notin Range(self.variants) THEN Edited(self, FALSE)
  ELSE VariantRemoved([self EXCEPT !.choices = Without(@, {variant}),
                                   !.variants = SelectSeq(@, LAMBDA v : v # variant)])

\* the variant misses the selection in one of the aspects
Misses(self, variant, selections) ==
  \E index \in 1..Len(self.aspects) :
    self.choices[variant][index] # selections[self.aspects[index]]

Matching(self, selections) ==
  SelectSeq(self.variants, LAMBDA variant : ~Misses(self, variant, selections))

\* the first match handed out also when there are more
FirstOf(matching) == IF Len(matching) = 0 THEN None ELSE Some(matching[1])

OnlyOf(matching) ==
  IF Len(matching) # 1 THEN None ELSE Some(matching[1])

match_variant(self, selections) == OnlyOf(Matching(self, selections))

-----------------------------------------------------------------------------
(* Table editing harness: a table is created or read, variants are added   *)
(* and deleted                                                             *)

\* the choices by aspect of the design the table belongs to
EditChoiceDict == ("P" :> {"x"}) @@ ("Q" :> {"w", "y", "z"})

\* the dicts of one choice per aspect
EditSelections == {("P" :> "x") @@ ("Q" :> c) : c \in EditChoiceDict["Q"]}

EditVariants == {"A", "B", "C"}

EditAspects == {<<"P", "Q">>, <<"Q">>}

\* the table files that are read
EditFiles ==
  {None,
   Some(<<<<"", "P", "Q">>, <<"A", "x", "y">>, <<"B", "x", "z">>>>),
   Some(<<<<"", "P", "Q">>, <<"A", "x", "y">>, <<"B", "x", "y">>>>),
   Some(<<<<"", "Q">>, <<"C", "w">>>>),
   Some(<<<<"", "P", "Q">>, <<"A", "x", "y">>, <<"A", "x", "z">>>>),
   Some(<<<<"", "P", "Q">>, <<"A", "x", "y">>, <<"B", "x">>>>)}

InitEdit ==
  /\ TokenizerIdle
  /\ EngineIdle
  /\ theFile \in EditFiles
  /\ theInfo = NewVariantInfo
  /\ infoErrors = << >>
  /\ infoBefore = NewVariantInfo
  /\ infoPc = "table"

EditStore(edited) ==
  /\ theInfo' = edited.self
  /\ infoBefore' = theInfo
  /\ UNCHANGED <<theFile, infoErrors, infoPc, strvars, engvars>>

\* errors = info.read_csv(choice_dict)
TableRead ==
  /\ infoPc = "table"
  /\ ReadStore(read_csv(theInfo, theFile, EditChoiceDict), "table")

CreateTable ==
  /\ infoPc = "table"
  /\ \E variant \in EditVariants, aspects \in EditAspects, choice_dict \in EditSelections :
       EditStore(create_table(theInfo, variant, aspects, choice_dict))

AddVariant ==
  /\ infoPc = "table"
  /\ \E variant \in EditVariants, choice_dict \in EditSelections :
       EditStore(add_variant(theInfo, variant, choice_dict))

DeleteVariant ==
  /\ infoPc = "table"
  /\ \E variant \in EditVariants : EditStore(delete_variant(theInfo, variant))

DeleteTable ==
  /\ infoPc = "table"
  /\ EditStore(delete_table(theInfo))

NextEdit == TableRead \/ CreateTable \/ AddVariant \/ DeleteVariant \/ DeleteTable

SpecEdit == InitEdit /\ [][NextEdit]_vars

\* C11: in every state of the table that read_csv, create_table,
\* add_variant, delete_variant and delete_table lead to, no two variants of
\* the table have one choice vector.
C11_DistinctVectors ==
  infoPc = "table" =>
    \A i, j \in 1..Len(theInfo.variants) :
      i # j => theInfo.choices[theInfo.variants[i]] # theInfo.choices[theInfo.variants[j]]

\* the rows of the table whose stored choice equals the selection's in
\* every aspect of the table
MatchingRows(selections) ==
  {n \in 1..Len(theInfo.variants) :
     \A k \in 1..Len(theInfo.aspects) :
       theInfo.choices[theInfo.variants[n]][k] = selections[theInfo.aspects[k]]}

\* the table of the variants A = (x, y) and B = (x, z)
TableAB ==
  /\ theInfo.aspects = <<"P", "Q">>
  /\ theInfo.variants = <<"A", "B">>
  /\ theInfo.choices = ("A" :> <<"x", "y">>) @@ ("B" :> <<"x", "z">>)

\* C12: match_variant returns the name of a variant iff exactly one
\* variant's stored choice equals the selection's choice in every aspect of
\* the table, the name being that variant's, and None when no variant or
\* more than one matches; with the variants A = (x, y) and B = (x, z) the
\* selection (x, y) gives A and (x, w) gives None.
C12_MatchVariant ==
  infoPc = "table" =>
    /\ \A selections \in EditSelections :
         /\ Cardinality(MatchingRows(selections)) = 1 =>
              \E n \in MatchingRows(selections) :
                match_variant(theInfo, selections) = Some(theInfo.variants[n])
         /\ Cardinality(MatchingRows(selections)) # 1 =>
              match_variant(theInfo, selections) = None
    /\ TableAB =>
         /\ match_variant(theInfo, ("P" :> "x") @@ ("Q" :> "y")) = Some("A")
         /\ match_variant(theInfo, ("P" :> "x") @@ ("Q" :> "w")) = None

\* the table of A = (x, y) and B = (x, z) is there, and so is, in another
\* state, a table two of whose variants match one selection
C12_Witness ==
  /\ infoPc = "table"
  /\ \/ /\ TableAB
        /\ match_variant(theInfo, ("P" :> "x") @@ ("Q" :> "y")) = Some("A")
     \/ /\ Len(theInfo.variants) = 3
        /\ \E selections \in EditSelections :
             /\ Cardinality(MatchingRows(selections)) = 2
             /\ match_variant(theInfo, selections) = None

Reported(msg, args) ==
  \E n \in 1..Len(infoErrors) : infoErrors[n] = Err(msg, args)

\* C13: when the grid of the table file breaks several rules of the load
\* validation at once, the errors read_csv returns are the complete list:
\* every row of fewer than two columns is reported, and in a grid of rows of
\* one width every duplicate variant name, every empty variant or aspect
\* name and every aspect the choice dict does not know is reported.
C13_CompleteErrors ==
  (infoPc \in {"read", "reread"} /\ ~IsNone(theFile) /\ Len(Grid) >= 2) =>
    /\ \A n \in 1..Len(Grid) :
         Len(Grid[n]) < 2 => Reported("Row has less than two columns", <<IntToStr(n)>>)
    /\ WellFormed(Grid) =>
         /\ Repeated(NamesOf(Grid)) =>
              \E dups \in Seq(Range(NamesOf(Grid))) :
                Reported("Found duplicate variant identifiers", dups)
         /\ \A k \in 1..Len(HeadingsOf(Grid)) :
              HeadingsOf(Grid)[k] \notin DOMAIN TableChoiceDict =>
                Reported("Aspect is invalid", <<HeadingsOf(Grid)[k]>>)

\* what parse_rule_fields finds on a component of the board
FieldsOf(uuid) == parse_rule_fields(theFpdict[uuid], Get(theBase))

\* the component carries a rule record: a component-scope record with a
\* choice section, or a field-scope record, combined or simple
CarriesRecord(pf) ==
  \/ pf.cmp_choice_sets # << >>
  \/ pf.fld_rule_strings # << >>
  \/ pf.fld_choice_sets # << >>
  \/ parse_rule_str(pf.cmp_rule_string).choice_sets # << >>

\* neither an Aspect field with a text nor an aspect name in the record
LacksAspect(pf) ==
  /\ pf.aspect \in {None, Some("")}
  /\ parse_rule_str(pf.cmp_rule_string).aspects = << >>

ErrorsOf(uuid) == SelectSeq(theErrors, LAMBDA e : e.uuid = Some(uuid))

\* C14: for every component that carries a rule record, component-scope or
\* field-scope, combined or simple, but no aspect identifier, build_vardict
\* reports an error for that component.
C14_MissingAspectReported ==
  (pc = "built" /\ BaseHits(theFpdict) # {}) =>
    \A uuid \in 1..Len(theFpdict) :
      (CarriesRecord(FieldsOf(uuid)) /\ LacksAspect(FieldsOf(uuid)))
        => ErrorsOf(uuid) # << >>

\* the component-scope choice sets of a component as written on the board:
\* <<names, content>> each
WrittenSets(uuid) ==
  parse_rule_str(FieldsOf(uuid).cmp_rule_string).choice_sets
  \o FieldsOf(uuid).cmp_choice_sets

NamedIn(cs) == Range(CookAll(split_raw_str(cs[1], ",", FALSE).val))

ArgsIn(cs) == split_raw_str(cs[2], " ", TRUE).val

\* how often the property specifier arg states the plain code id: the
\* code itself, or the alias of the assembly codes
StatedTimes(arg, id) ==
  IF Ch(arg, 1) \notin {"+", "-"} THEN 0
  ELSE CountChar(Upper(arg), id)
       + (IF id \in {"F", "B", "P"} THEN CountChar(arg, "!") ELSE 0)

\* the record assigns the property id to the choice more than once: twice in
\* one specifier, in two specifiers of one argument list, or in two sections
AssignedTwice(uuid, choice, id) ==
  \E s1, s2 \in 1..Len(WrittenSets(uuid)) :
    /\ choice \in NamedIn(WrittenSets(uuid)[s1]) \cap NamedIn(WrittenSets(uuid)[s2])
    /\ \E a1 \in 1..Len(ArgsIn(WrittenSets(uuid)[s1])),
          a2 \in 1..Len(ArgsIn(WrittenSets(uuid)[s2])) :
         \/ /\ <<s1, a1>> # <<s2, a2>>
            /\ StatedTimes(ArgsIn(WrittenSets(uuid)[s1])[a1], id) >= 1
            /\ StatedTimes(ArgsIn(WrittenSets(uuid)[s2])[a2], id) >= 1
         \/ StatedTimes(ArgsIn(WrittenSets(uuid)[s1])[a1], id) >= 2

HasValue(cs) ==
  \E a \in 1..Len(ArgsIn(cs)) : Ch(ArgsIn(cs)[a], 1) \notin {"+", "-"}

\* two sections naming the choice give it a value
ValuedTwice(uuid, choice) ==
  \E s1, s2 \in 1..Len(WrittenSets(uuid)) :
    /\ s1 # s2
    /\ choice \in NamedIn(WrittenSets(uuid)[s1]) \cap NamedIn(WrittenSets(uuid)[s2])
    /\ HasValue(WrittenSets(uuid)[s1])
    /\ HasValue(WrittenSets(uuid)[s2])

\* the records of the component parse and give it an aspect
WellWritten(uuid) ==
  /\ FieldsOf(uuid).errors = << >>
  /\ parse_rule_str(FieldsOf(uuid).cmp_rule_string).errors = << >>
  /\ ~LacksAspect(FieldsOf(uuid))
  /\ \A s \in 1..Len(WrittenSets(uuid)) :
       /\ split_raw_str(WrittenSets(uuid)[s][1], ",", FALSE).ok
       /\ split_raw_str(WrittenSets(uuid)[s][2], " ", TRUE).ok

DupReported(uuid, msg, choice) ==
  \E i \in 1..Len(theErrors) :
    /\ theErrors[i].uuid = Some(uuid)
    /\ theErrors[i].msg = msg
    /\ theErrors[i].args[1] = choice

\* C15: a component-scope record that assigns a property id, or a value, to
\* one choice more than once gets a duplicate-assignment error for that
\* choice, whether the two assignments stand in one argument list or in two
\* sections naming the choice.
C15_DuplicateReported ==
  (pc = "built" /\ BaseHits(theFpdict) # {}) =>
    \A uuid \in 1..Len(theFpdict) :
      WellWritten(uuid) =>
        \A choice \in UNION {NamedIn(WrittenSets(uuid)[s]) : s \in 1..Len(WrittenSets(uuid))} :
          /\ (\E id \in {"F", "B", "P", "S"} : AssignedTwice(uuid, choice, id))
               => DupReported(uuid, MsgDupProp, choice)
          /\ ValuedTwice(uuid, choice) => DupReported(uuid, MsgDupValue, choice)

-----------------------------------------------------------------------------
(* Properties of the change records of apply_selection *)

\* the choice the last call was given for the component's aspect, None
\* when the selection leaves the aspect out or unresolved
SelectedFor(uuid) ==
  IF Get(theVardict)[uuid].a \in DOMAIN Get(theSelection)
  THEN Get(theSelection)[Get(theVardict)[uuid].a]
  ELSE None

ChosenEntry(uuid) == Get(theVardict)[uuid].c[Get(SelectedFor(uuid))]

\* the attributes of a component for which its selected choice states a
\* state that differs from the state the call found
DueValue(uuid) ==
  {<<uuid, "value", "">> : x \in {v \in {ChosenEntry(uuid).v} :
                                    ~IsNone(v) /\ Get(v) # fpBefore[uuid].v}}

DueProps(uuid) ==
  {<<uuid, "prop", id>> : id \in {i \in DOMAIN fpBefore[uuid].p :
                                    /\ ~IsNone(ChosenEntry(uuid).p[i])
                                    /\ ChosenEntry(uuid).p[i] # fpBefore[uuid].p[i]}}

DueFields(uuid) ==
  {<<uuid, "field", f>> : f \in {g \in DOMAIN Get(theVardict)[uuid].f :
       /\ ~IsNone(Get(theVardict)[uuid].f[g][Get(SelectedFor(uuid))].v)
       /\ Get(Get(theVardict)[uuid].f[g][Get(SelectedFor(uuid))].v)
          # FieldText(fpBefore[uuid].F, g)}}

Due ==
  UNION {DueValue(uuid) \cup DueProps(uuid) \cup DueFields(uuid) :
         uuid \in {u \in DOMAIN Get(theVardict) : ~IsNone(SelectedFor(u))}}

RecordOf(n) == <<theChanges[n].uuid, theChanges[n].what, theChanges[n].id>>

\* C16: apply_selection returns exactly one change record for every pair of
\* a component and an attribute (the value, a property id, a target field)
\* for which the selected choice of the component's aspect states a state
\* that differs from the live one, and no other record; a component whose
\* aspect the selection leaves out or gives as None has no record and is
\* left as it was.
C16_ChangeRecords ==
  pc = "applied" =>
    /\ ~theRaised
    /\ {RecordOf(n) : n \in 1..Len(theChanges)} = Due
    /\ \A n, m \in 1..Len(theChanges) : RecordOf(n) = RecordOf(m) => n = m
    /\ \A uuid \in 1..Len(fpBefore) :
         (uuid \notin DOMAIN Get(theVardict) \/ IsNone(SelectedFor(uuid)))
           => /\ theFpdict[uuid] = fpBefore[uuid]
              /\ \A n \in 1..Len(theChanges) : theChanges[n].uuid # uuid

\* a call returned records for a value, a property and a field, and left a
\* component of an unresolved aspect alone
C16_Witness ==
  /\ pc = "applied"
  /\ \E n \in 1..Len(theChanges) : theChanges[n].what = "value"
  /\ \E n \in 1..Len(theChanges) : theChanges[n].what = "prop"
  /\ \E n \in 1..Len(theChanges) : theChanges[n].what = "field"
  /\ \E uuid \in DOMAIN Get(theVardict) : IsNone(SelectedFor(uuid))

\* the records the last call returned for an attribute of a component
RecordsFor(uuid, what, id) ==
  SelectSeq(theChanges, LAMBDA ch : ch.uuid = uuid /\ ch.what = what /\ ch.id = id)

\* what a non-dry-run call leaves of an attribute: the new state of its
\* record, or what was there when it has none
ValueAfter(uuid) ==
  IF RecordsFor(uuid, "value", "") = << >> THEN fpBefore[uuid].v
  ELSE RecordsFor(uuid, "value", "")[1].new

StateAfter(uuid, id) ==
  IF RecordsFor(uuid, "prop", id) = << >> THEN fpBefore[uuid].p[id]
  ELSE IF id = PropCode_SOLDER THEN paste_state_from_ratio(RecordsFor(uuid, "prop", id)[1].new)
  ELSE Some(convert_attrib_prop_state(id, RecordsFor(uuid, "prop", id)[1].new))

RatioAfter(uuid) ==
  IF RecordsFor(uuid, "prop", PropCode_SOLDER) = << >> THEN fpBefore[uuid].pr
  ELSE RecordsFor(uuid, "prop", PropCode_SOLDER)[1].new

TextAfter(uuid, field) ==
  IF RecordsFor(uuid, "field", field) = << >> THEN FieldText(fpBefore[uuid].F, field)
  ELSE RecordsFor(uuid, "field", field)[1].new

Reflected(uuid) ==
  /\ theFpdict[uuid].R = fpBefore[uuid].R
  /\ theFpdict[uuid].v = ValueAfter(uuid)
  /\ DOMAIN theFpdict[uuid].p = DOMAIN fpBefore[uuid].p
  /\ \A id \in DOMAIN fpBefore[uuid].p : theFpdict[uuid].p[id] = StateAfter(uuid, id)
  /\ theFpdict[uuid].pr = RatioAfter(uuid)
  /\ FieldNames(theFpdict[uuid].F) = FieldNames(fpBefore[uuid].F)
  /\ \A k \in 1..Len(fpBefore[uuid].F) :
       FieldText(theFpdict[uuid].F, fpBefore[uuid].F[k][1]) = TextAfter(uuid, fpBefore[uuid].F[k][1])

\* C17: a dry run of apply_selection leaves the snapshot as it is and
\* returns the changes that the call without dry run returns from the same
\* snapshot; without dry run every returned change is in the snapshot
\* afterwards and nothing else of the snapshot has changed.
C17_DryRunFrame ==
  pc = "applied" =>
    /\ theDryRun =>
         /\ theFpdict = fpBefore
         /\ theChanges = apply_selection(fpBefore, Get(theVardict), Get(theSelection), FALSE).changes
    /\ ~theDryRun =>
         /\ theChanges = apply_selection(fpBefore, Get(theVardict), Get(theSelection), TRUE).changes
         /\ Len(theFpdict) = Len(fpBefore)
         /\ \A uuid \in 1..Len(fpBefore) : Reflected(uuid)

\* a dry run that returned changes, among them a solder paste switch
C17_Witness ==
  /\ pc = "applied"
  /\ theDryRun
  /\ Len(theChanges) >= 2
  /\ \E n \in 1..Len(theChanges) : theChanges[n].id = PropCode_SOLDER
  /\ theFpdict = fpBefore

NoCook == [ok |-> FALSE, val |-> ""]

NoParse == [args |-> << >>, out |-> << >>]

-----------------------------------------------------------------------------
(* Splitter harness: a string is handed to split_parens or split_raw_str   *)

\* the longest string handed to the splitters
MaxSplitLen == 4

SplitAlphabet == {"a", ",", "(", ")", SQ, DQ, BSL}

RECURSIVE SplitStringsUpTo(_)
SplitStringsOf(shorter) == shorter \cup {s \o c : s \in shorter, c \in SplitAlphabet}
SplitStringsUpTo(n) ==
  IF n = 0 THEN {""} ELSE SplitStringsOf(SplitStringsUpTo(n - 1))

InitSplit ==
  /\ txt \in SplitStringsUpTo(MaxSplitLen)
  /\ quoted = ""
  /\ cooked = NoCook
  /\ theParse = NoParse
  /\ pcStr = "start"
  /\ EngineIdle
  /\ VariantIdle

\* outside, inside = split_parens(txt)
SplitParens ==
  /\ pcStr = "start"
  /\ theParse' = [args |-> << >>, out |-> split_parens(txt)]
  /\ pcStr' = "parens"
  /\ UNCHANGED <<txt, quoted, cooked, engvars, infovars>>

\* parts = split_raw_str(txt, ',', multisep)
SplitRaw ==
  /\ pcStr = "start"
  /\ \E multisep \in BOOLEAN :
       theParse' = [args |-> <<",", multisep>>, out |-> split_raw_str(txt, ",", multisep)]
  /\ pcStr' = "split"
  /\ UNCHANGED <<txt, quoted, cooked, engvars, infovars>>

NextSplit == SplitParens \/ SplitRaw

SpecSplit == InitSplit /\ [][NextSplit]_vars

\* The reading of a string that the properties of the splitters are stated
\* in: after k characters a backslash may be pending (e) and a quote may be
\* open (q, the quote character or ""); a character is plain when it is
\* neither escaped, nor inside quotes, nor a backslash or a quote itself.
LexNext(l, c) ==
  IF l.e THEN [l EXCEPT !.e = FALSE]
  ELSE IF c = BSL THEN [l EXCEPT !.e = TRUE]
  ELSE IF l.q = "" /\ c \in {SQ, DQ} THEN [l EXCEPT !.q = c]
  ELSE IF l.q = c THEN [l EXCEPT !.q = ""]
  ELSE l

RECURSIVE LexAfter(_, _)
LexAfter(s, k) ==
  IF k = 0 THEN [e |-> FALSE, q |-> ""] ELSE LexNext(LexAfter(s, k - 1), Ch(s, k))

PlainAt(s, k) ==
  /\ LexAfter(s, k - 1) = [e |-> FALSE, q |-> ""]
  /\ Ch(s, k) \notin {BSL, SQ, DQ}

PlainIs(s, k, c) == PlainAt(s, k) /\ Ch(s, k) = c

\* escapes and quotes are closed at the end of the string
LexClosed(s) == LexAfter(s, Len(s)) = [e |-> FALSE, q |-> ""]

\* the plain parentheses open after k characters
DepthAfter(s, k) ==
  Cardinality({i \in 1..k : PlainIs(s, i, "(")}) - Cardinality({i \in 1..k : PlainIs(s, i, ")")})

ParensClosed(s) ==
  /\ \A k \in 1..Len(s) : DepthAfter(s, k) >= 0
  /\ DepthAfter(s, Len(s)) = 0

Slice(s, from, to) == IF from > to THEN "" ELSE SubSeq(s, from, to)

Lowest(S) == CHOOSE x \in S : \A y \in S : x <= y

\* where the first top-level group of the string opens and closes
GroupOpens(s) == {k \in 1..Len(s) : PlainIs(s, k, "(")}
GroupCloses(s) ==
  {k \in 1..Len(s) : k > Lowest(GroupOpens(s)) /\ PlainIs(s, k, ")") /\ DepthAfter(s, k) = 0}

Ungrouped(s) ==
  [ok |-> TRUE, outside |-> IF s = "" THEN None ELSE Some(s), inside |-> None, err |-> ""]

Grouped(s, open, close) ==
  [ok |-> TRUE, outside |-> Some(Slice(s, 1, open - 1)),
   inside |-> Some(Slice(s, open + 1, close - 1)), err |-> ""]

\* C18: split_parens fails when the parentheses, quotes or escapes of the
\* string are unbalanced or a character follows the closing parenthesis of
\* its first top-level group.  Otherwise inside is None iff the string has
\* no top-level group, and else the raw content of the first top-level
\* group, nested parentheses kept ("" for an empty group), outside being
\* what stands before the group.  'Var(A,B)' gives ('Var', 'A,B'), 'Var'
\* gives ('Var', None) and 'Var()' gives ('Var', '').
C18_SplitParens ==
  /\ pcStr = "parens" =>
       IF ~LexClosed(txt) \/ ~ParensClosed(txt)
       THEN ~theParse.out.ok
       ELSE IF GroupOpens(txt) = {}
       THEN theParse.out = Ungrouped(txt)
       ELSE IF Lowest(GroupCloses(txt)) # Len(txt)
       THEN ~theParse.out.ok
       ELSE /\ theParse.out = Grouped(txt, Lowest(GroupOpens(txt)), Len(txt))
            /\ theParse.out.inside # None
  /\ split_parens("Var(A,B)") = Grouped("Var(A,B)", 4, 8)
  /\ split_parens("Var(A,B)").inside = Some("A,B")
  /\ split_parens("Var(A,B)").outside = Some("Var")
  /\ split_parens("Var") = Ungrouped("Var")
  /\ split_parens("Var()").inside = Some("")
  /\ split_parens("Var()").outside = Some("Var")

\* a group with a nested group was split off
C18_Witness ==
  /\ pcStr = "parens"
  /\ theParse.out.ok
  /\ theParse.out.inside = Some("()")
  /\ theParse.out.outside = Some("")

\* the places where a string is split: the plain separators outside
\* parentheses
SplitPoints(s, sep) == {k \in 1..Len(s) : PlainIs(s, k, sep) /\ DepthAfter(s, k) = 0}

\* the i-th split point, the ends of the string being points 0 and last
PointAt(s, sep, i) ==
  IF i = 0 THEN 0
  ELSE IF i > Cardinality(SplitPoints(s, sep)) THEN Len(s) + 1
  ELSE CHOOSE k \in SplitPoints(s, sep) :
         Cardinality({j \in SplitPoints(s, sep) : j < k}) = i - 1

Pieces(s, sep) ==
  [i \in 1..(Cardinality(SplitPoints(s, sep)) + 1) |->
     Slice(s, PointAt(s, sep, i - 1) + 1, PointAt(s, sep, i) - 1)]

IsFilled(piece) == piece # ""

RECURSIVE Joined(_, _)
Joined(parts, sep) ==
  IF Len(parts) = 0 THEN ""
  ELSE IF Len(parts) = 1 THEN parts[1]
  ELSE parts[1] \o sep \o Joined(Tail(parts), sep)

SplitAsStated(s, sep, multisep, out) ==
  IF ~LexClosed(s) \/ ~ParensClosed(s)
  THEN ~out.ok
  ELSE /\ out.ok
       /\ ~multisep => out.val = Pieces(s, sep) /\ Joined(out.val, sep) = s
       /\ multisep => out.val = SelectSeq(Pieces(s, sep), IsFilled)

\* C20: split_raw_str(text, sep, collapse) fails exactly when text has an
\* unmatched parenthesis outside quotes, a trailing unescaped backslash or an
\* unclosed quote.  Otherwise it splits text at exactly the occurrences of
\* sep that are not escaped, not inside quotes and not inside parentheses,
\* returning the raw pieces in order: with collapse FALSE joining them with
\* sep gives back text, with collapse TRUE the empty pieces are removed.
C20_SplitRawStr ==
  pcStr = "split" =>
    SplitAsStated(txt, theParse.args[1], theParse.args[2], theParse.out)

\* a separator was kept inside a group and inside quotes while another split
\* the text, and empty pieces were dropped
C20_Witness ==
  /\ pcStr = "split"
  /\ theParse.out.ok
  /\ theParse.args[2]
  /\ txt \in {"(,),", ",',',"}
  /\ Len(theParse.out.val) = 1

-----------------------------------------------------------------------------
(* Property specifier harness: a specifier is parsed into a property set   *)

\* the longest specifier made of every combination of characters
MaxPropLen == 4

PropAlphabet == {"+", "-", "F", "b", "M", "!", "2"}

RECURSIVE PropStringsUpTo(_)
PropStringsOf(shorter) == shorter \cup {s \o c : s \in shorter, c \in PropAlphabet}
PropStringsUpTo(n) ==
  IF n = 0 THEN {""} ELSE PropStringsOf(PropStringsUpTo(n - 1))

\* specifiers of other codes, of unsupported characters and of long indexes
LongSpecifiers ==
  {"+M99999", "+M100000", "+M000002", "+m2-M02", "+S-p", "+s-P+f", "+x", "+F,B",
   "-!+M1", "+M1M2-M1", "+F-B", "+M2", "+M", "x", "+Fx", "+F2", "+2", "+M123456",
   "+M2-", "+F+M", "+M-F", "+MF"}

\* the property sets a specifier is applied to
PropSets ==
  {EmptyDict,
   ("F" :> FALSE) @@ ("M#2" :> FALSE),
   ("B" :> TRUE) @@ ("P" :> TRUE) @@ ("M#22" :> TRUE)}

InitProp ==
  /\ txt \in PropStringsUpTo(MaxPropLen) \cup LongSpecifiers
  /\ quoted = ""
  /\ cooked = NoCook
  /\ theParse = NoParse
  /\ pcStr = "start"
  /\ EngineIdle
  /\ VariantIdle

\* parse_prop_str(txt, prop_set)
ParseProps ==
  /\ pcStr = "start"
  /\ \E prop_set \in PropSets :
       theParse' = [args |-> <<prop_set>>, out |-> parse_prop_str(txt, prop_set)]
  /\ pcStr' = "props"
  /\ UNCHANGED <<txt, quoted, cooked, engvars, infovars>>

\* the property set is handed on after a specifier was parsed into it
ParseMore ==
  /\ pcStr = "props"
  /\ theParse.out.ok
  /\ \E more \in {"+F", "-M2", "-!"} :
       /\ txt' = more
       /\ theParse' = [args |-> <<theParse.out.prop_set>>,
                       out |-> parse_prop_str(more, theParse.out.prop_set)]
  /\ pcStr' = "more"
  /\ UNCHANGED <<quoted, cooked, engvars, infovars>>

NextProp == ParseProps \/ ParseMore

SpecProp == InitProp /\ [][NextProp]_vars

\* The reading of a specifier that the property of parse_prop_str is stated
\* in: the code a character names, in either case
CodeOf ==
  ("F" :> "F") @@ ("f" :> "F") @@ ("B" :> "B") @@ ("b" :> "B") @@
  ("P" :> "P") @@ ("p" :> "P") @@ ("S" :> "S") @@ ("s" :> "S") @@
  ("M" :> "M") @@ ("m" :> "M") @@ ("!" :> "!")

IsSignAt(s, k) == k \in 1..Len(s) /\ Ch(s, k) \in {"+", "-"}
IsCodeAt(s, k) == k \in 1..Len(s) /\ Ch(s, k) \in DOMAIN CodeOf
IsIndexedAt(s, k) == IsCodeAt(s, k) /\ CodeOf[Ch(s, k)] = "M"
IsDigitAt(s, k) == k \in 1..Len(s) /\ Ch(s, k) \in {"0", "1", "2", "3", "4", "5", "6", "7", "8", "9"}

\* where the digits that follow place k end (k when none follows)
RunEnd(s, k) ==
  CHOOSE j \in k..Len(s) :
    /\ \A i \in (k + 1)..j : IsDigitAt(s, i)
    /\ ~IsDigitAt(s, j + 1)

RECURSIVE NumberOf(_, _, _)
NumberOf(s, from, to) ==
  IF from > to THEN 0 ELSE NumberOf(s, from, to - 1) * 10 + DigitVal(Ch(s, to))

IndexAfter(s, k) == NumberOf(s, k + 1, RunEnd(s, k))

\* a specifier is signs each followed by one or more codes, an indexed code
\* being followed by the digits of an index that is not too high
WellFormedSpec(s) ==
  /\ s # "" => IsSignAt(s, 1)
  /\ \A k \in 1..Len(s) :
       \/ IsSignAt(s, k) /\ IsCodeAt(s, k + 1)
       \/ IsCodeAt(s, k) /\ ~IsIndexedAt(s, k)
       \/ IsIndexedAt(s, k) /\ IsDigitAt(s, k + 1) /\ IndexAfter(s, k) <= MaxPropIndex
       \/ IsDigitAt(s, k) /\ (IsDigitAt(s, k - 1) \/ IsIndexedAt(s, k - 1))

\* the property ids the code at place k names
IdsAt(s, k) ==
  IF CodeOf[Ch(s, k)] = "!" THEN {"F", "B", "P"}
  ELSE IF CodeOf[Ch(s, k)] = "M" THEN {"M#" \o IntToStr(IndexAfter(s, k))}
  ELSE {CodeOf[Ch(s, k)]}

Naming(s, id) == {k \in 1..Len(s) : IsCodeAt(s, k) /\ id \in IdsAt(s, k)}

Highest(S) == CHOOSE x \in S : \A y \in S : y <= x

\* the state of the most recent sign before place k
SignedAt(s, k) == Ch(s, Highest({j \in 1..k : IsSignAt(s, j)})) = "+"

NamedIds(s) == UNION {IdsAt(s, k) : k \in {j \in 1..Len(s) : IsCodeAt(s, j)}}

SpecifiedOn(s, prop_set) ==
  [id \in (DOMAIN prop_set) \cup NamedIds(s) |->
     IF Naming(s, id) # {} THEN SignedAt(s, Highest(Naming(s, id)))
     ELSE prop_set[id]]

\* C19: parse_prop_str applied to a well-formed specifier sets, for each
\* code in it, the property id to the state of the most recent sign ('+'
\* true, '-' false): a plain code sets id <code>, M followed by digits n
\* sets id 'M#n', '!' sets F, B and P, lower case counts as upper case, and
\* the ids not named are left as they were; a specifier that is not well
\* formed fails.  '+F-B' on an empty map gives {F: true, B: false}, '+M2'
\* gives {'M#2': true}, and '+M' fails.
C19_ParsePropStr ==
  /\ pcStr \in {"props", "more"} =>
       /\ theParse.out.ok <=> WellFormedSpec(txt)
       /\ theParse.out.ok => theParse.out.prop_set = SpecifiedOn(txt, theParse.args[1])
  /\ parse_prop_str("+F-B", EmptyDict).ok
  /\ parse_prop_str("+F-B", EmptyDict).prop_set = ("F" :> TRUE) @@ ("B" :> FALSE)
  /\ parse_prop_str("+M2", EmptyDict).ok
  /\ parse_prop_str("+M2", EmptyDict).prop_set = ("M#2" :> TRUE)
  /\ ~parse_prop_str("+M", EmptyDict).ok

\* an alias and a lower-case code were applied and an id not named was kept
C19_Witness ==
  /\ pcStr = "props"
  /\ txt = "-!+b"
  /\ theParse.out.ok
  /\ theParse.args[1] = ("F" :> FALSE) @@ ("M#2" :> FALSE)
  /\ theParse.out.prop_set =
       ("F" :> FALSE) @@ ("B" :> TRUE) @@ ("P" :> FALSE) @@ ("M#2" :> FALSE)

\* The ways a specifier can be wrong
SignAfterSign(s) == \E k \in 1..Len(s) : IsSignAt(s, k) /\ IsSignAt(s, k + 1)
IndexMissing(s) ==
  \E k \in 1..Len(s) : IsIndexedAt(s, k) /\ (IsSignAt(s, k + 1) \/ IsCodeAt(s, k + 1))
StrayDigit(s) ==
  \E k \in 1..Len(s) : IsDigitAt(s, k) /\ ~(IsDigitAt(s, k - 1) \/ IsIndexedAt(s, k - 1))
UnsupportedChar(s) ==
  \E k \in 1..Len(s) : ~(IsSignAt(s, k) \/ IsCodeAt(s, k) \/ IsDigitAt(s, k))
IndexTooHigh(s) ==
  \E k \in 1..Len(s) : IsIndexedAt(s, k) /\ IndexAfter(s, k) > MaxPropIndex
EndsEarly(s) == IsSignAt(s, Len(s)) \/ IsIndexedAt(s, Len(s))

FailedAs(out, msgs) == ~out.ok /\ out.err \in msgs

\* C21: parse_prop_str fails on a sign directly after a sign, on a sign or
\* a code directly after an indexed code without digits, on a digit when no
\* indexed code is pending ('+F2', '+2'), on a character outside the
\* supported codes, on an index above 99999, and on input that ends right
\* after a sign or right after an indexed code without digits.
C21_PropStrFails ==
  /\ pcStr \in {"props", "more"} =>
       /\ SignAfterSign(txt) => ~theParse.out.ok
       /\ IndexMissing(txt) => ~theParse.out.ok
       /\ StrayDigit(txt) => ~theParse.out.ok
       /\ UnsupportedChar(txt) => ~theParse.out.ok
       /\ IndexTooHigh(txt) => ~theParse.out.ok
       /\ EndsEarly(txt) => ~theParse.out.ok
  /\ FailedAs(parse_prop_str("+-F", EmptyDict),
              {"Got property modifier where property identifier was expected"})
  /\ FailedAs(parse_prop_str("+M-F", EmptyDict),
              {"Got property modifier where property index was expected"})
  /\ FailedAs(parse_prop_str("+MF", EmptyDict),
              {"Got property code where property index was expected"})
  /\ FailedAs(parse_prop_str("+F2", EmptyDict), {"Got unexpected property index"})
  /\ FailedAs(parse_prop_str("+2", EmptyDict), {"Got unexpected property index"})
  /\ FailedAs(parse_prop_str("+x", EmptyDict), {"Unsupported property code"})
  /\ FailedAs(parse_prop_str("+M100000", EmptyDict),
              {"Index value for property code is too high"})
  /\ FailedAs(parse_prop_str("+F-", EmptyDict),
              {"End of property specifier when property code was expected"})
  /\ FailedAs(parse_prop_str("+M", EmptyDict),
              {"End of property specifier when property index was expected"})

\* a specifier whose only fault is that it ends after a sign was refused
C21_Witness ==
  /\ pcStr = "props"
  /\ txt = "+M2-"
  /\ ~theParse.out.ok
  /\ theParse.out.err = "End of property specifier when property code was expected"

\* C27: when parse_prop_str fails on a specifier, the property map of the
\* caller is left exactly as it was before the call.
C27_FailureKeepsMap ==
  (pcStr \in {"props", "more"} /\ ~theParse.out.ok) =>
    theParse.out.prop_set = theParse.args[1]

-----------------------------------------------------------------------------
(* Margin ratio harness: boards whose margin ratios lie on, next to and    *)
(* between the edges of the bands                                          *)

\* the doubles -42420.1 and -42419.9
BandInheritLow == Flt(TRUE, 42420, 26843545, 160956416)
BandInheritHigh == Flt(TRUE, 42419, 241591910, 107479040)

\* each edge of a band with the doubles next to it, and ratios well inside
\* and well outside the bands
EdgeRatios ==
  {None,
   Some(FltInt(0)), Some(RatioMinusTenth), Some(FltInt(1000)), Some(FltInt(-1000)),
   Some(FltInt(-42300)), Some(FltInt(-50000)), Some(PasteRatio_INHERIT),
   Some(PasteRatio_OFFSET),
   Some(Flt(FALSE, 99, 268435455, 268434432)), Some(FltInt(100)),
   Some(Flt(FALSE, 100, 0, 1024)),
   Some(Flt(TRUE, 100, 0, 1024)), Some(FltInt(-100)),
   Some(Flt(TRUE, 99, 268435455, 268434432)),
   Some(Flt(TRUE, 42420, 26843545, 161480704)), Some(BandInheritLow),
   Some(Flt(TRUE, 42420, 26843545, 160432128)),
   Some(Flt(TRUE, 42419, 241591910, 108003328)), Some(BandInheritHigh),
   Some(Flt(TRUE, 42419, 241591910, 106954752)),
   Some(Flt(TRUE, 42100, 0, 524288)), Some(FltInt(-42100)),
   Some(Flt(TRUE, 42099, 268435455, 267911168)),
   Some(Flt(TRUE, 41900, 0, 524288)), Some(FltInt(-41900)),
   Some(Flt(TRUE, 41899, 268435455, 267911168))}

\* records that give a choice a solder paste state, records that give
\* none, and a record that is refused as a whole
SolderRules == {"X A(+S) B(-S)", "X A(-s +F) B(+S -F)", "X A(1k) B(2k) *(+S)", "X A(+S) B()"}
PlainRules == {"X A(+F) B(-F)", "X A(+!) B(-!)", "X A(1k) B(2k)", ""}
BrokenRules == {"X A(+S", "X A(+S) B"}

\* R1 with the record and the ratio, R2 without solder paste state and with
\* a ratio outside the bands
RatioBoard(rule, pratio) ==
  <<Footprint("R1", << <<"Var", rule>> >>, "10k", FALSE, pratio, << >>),
    Footprint("R2", << <<"Var", "X A(+B) B(-B)">> >>, "1u", FALSE,
              Some(FltInt(1000)), << >>)>>

RatioBoards ==
  {RatioBoard(rule, pratio) :
     rule \in SolderRules \cup PlainRules \cup BrokenRules, pratio \in EdgeRatios}

InitRatio ==
  /\ TokenizerIdle
  /\ VariantIdle
  /\ InitEngine(RatioBoards)

NextRatio == Build

SpecRatio == InitRatio /\ [][NextRatio]_vars

Within(r, low, high) == FLeq(low, r) /\ FLeq(r, high)

\* the state a margin ratio stands for: TRUE is ON, FALSE is OFF
BandState(pratio) ==
  IF pratio = None THEN Some(TRUE)
  ELSE IF Within(Get(pratio), FltInt(-100), FltInt(100)) THEN Some(TRUE)
  ELSE IF Within(Get(pratio), BandInheritLow, BandInheritHigh) THEN Some(FALSE)
  ELSE IF Within(Get(pratio), FltInt(-42100), FltInt(-41900)) THEN Some(FALSE)
  ELSE None

RuleOf(uuid) == theFpdict[uuid].F[1][2]

ClassifyReported(uuid) ==
  \E n \in 1..Len(theErrors) :
    theErrors[n].uuid = Some(uuid) /\ theErrors[n].msg = MsgClassify

\* C22: the live margin ratio is ON for None and for ratios in [-100, 100],
\* OFF for ratios in [-42420.1, -42419.9] and in [-42100, -41900], edges
\* included, and unclassifiable for every other ratio.  build_vardict
\* reports the 'cannot classify' error for a component iff a choice of the
\* component has a solder paste state and the ratio of the component is
\* unclassifiable; a component whose record is refused as a whole has no
\* choices.
C22_RatioBands ==
  pc = "built" =>
    \A uuid \in 1..Len(theFpdict) :
      /\ paste_state_from_ratio(theFpdict[uuid].pr) = BandState(theFpdict[uuid].pr)
      /\ theFpdict[uuid].p[PropCode_SOLDER] = BandState(theFpdict[uuid].pr)
      /\ ClassifyReported(uuid) <=>
           (RuleOf(uuid) \in SolderRules /\ BandState(theFpdict[uuid].pr) = None)

\* a component with a solder paste state whose ratio is the double next
\* below -42420.1 was reported, the component without one was not
C22_Witness ==
  /\ pc = "built"
  /\ RuleOf(1) \in SolderRules
  /\ theFpdict[1].pr = Some(Flt(TRUE, 42420, 26843545, 161480704))
  /\ ClassifyReported(1)
  /\ ~ClassifyReported(2)
  /\ theFpdict[2].p[PropCode_SOLDER] = None

-----------------------------------------------------------------------------
(* Base token harness: one run of the engine builds the models of several  *)
(* snapshots, one after the other                                          *)

RuleUnder(base) == <<base, "X A(1k) B(2k)">>

\* R1 found first carries the later candidate, R2 the earlier one
BaseBoards ==
  {<<Footprint("R1", << <<"Note", "x">> >>, "10k", FALSE, None, << >>)>>,
   <<Footprint("R1", << RuleUnder("Var") >>, "10k", FALSE, None, << >>)>>,
   <<Footprint("R1", << RuleUnder("Variant") >>, "10k", FALSE, None, << >>)>>,
   <<Footprint("R1", << RuleUnder("Config"), <<"Var", "">> >>, "10k", FALSE, None, << >>)>>,
   <<Footprint("R1", << RuleUnder("Build") >>, "10k", FALSE, None, << >>),
     Footprint("R2", << <<"Variant.Aspect", "Y">>, <<"Variant(P)", "+F">>,
                        <<"Variant(Q)", "-F">> >>, "1u", FALSE, None, << >>)>>,
   <<Footprint("R1", << <<"T", "t0">>, <<"T.Config", "P(t1) Q(t2)">>,
                        <<"Config.Aspect", "Y">> >>, "10k", FALSE, None, << >>),
     Footprint("R2", << RuleUnder("Build") >>, "1u", FALSE, None, << >>)>>,
   <<Footprint("R1", << RuleUnder("Build"), <<"var", "X A(1k) B(2k)">> >>,
               "10k", FALSE, None, << >>)>>}

InitBase ==
  /\ TokenizerIdle
  /\ VariantIdle
  /\ InitEngine(BaseBoards)

\* the board is read again: fpdict = build_fpdict(board)
Resnapshot ==
  /\ pc = "built"
  /\ theFpdict' \in {build_fpdict(b) : b \in BaseBoards}
  /\ pc' = "snapshot"
  /\ UNCHANGED <<strvars, infovars, buildvars, applyvars, theDetected>>

NextBase == Build \/ Resnapshot

SpecBase == InitBase /\ [][NextBase]_vars

\* the field names of the known record shapes of a base token, as far as
\* the boards use them
ShapesOf(base) ==
  {base, base \o ".Aspect", "T." \o base, base \o "(P)", base \o "(Q)"}

Shaped(fpdict, uuid, base) ==
  \E i \in 1..Len(fpdict[uuid].F) :
    fpdict[uuid].F[i][2] # "" /\ fpdict[uuid].F[i][1] \in ShapesOf(base)

Candidates(fpdict) ==
  {b \in 1..4 : \E uuid \in 1..Len(fpdict) :
                  Shaped(fpdict, uuid, <<"Var", "Variant", "Config", "Build">>[b])}

FirstCandidate(fpdict) ==
  IF Candidates(fpdict) = {} THEN "Var"
  ELSE <<"Var", "Variant", "Config", "Build">>[Lowest(Candidates(fpdict))]

\* C23: the base token is fixed once per run: the first build_vardict call
\* sets it to the first candidate of (Var, Variant, Config, Build) for
\* which some component has a non-empty field of a known record shape, or
\* to 'Var' when no field matches; no later build_vardict call changes it,
\* whatever the later snapshots contain; and a build takes into the model
\* only components with a record under that one base token.
C23_BaseFixedOnce ==
  [][/\ (theBase = None /\ pc' = "built") =>
          theBase' = Some(FirstCandidate(theFpdict))
     /\ theBase # None => theBase' = theBase
     /\ (pc' = "built" /\ theVardict' # None) =>
          \A uuid \in DOMAIN Get(theVardict') :
            Shaped(theFpdict', uuid, Get(theBase'))]_vars

\* with the base token fixed to Variant by an earlier snapshot, a snapshot
\* whose only records stand under Var gave the empty model
C23_Witness ==
  /\ pc = "built"
  /\ theBase = Some("Variant")
  /\ Candidates(theFpdict) = {1}
  /\ theVardict = Some(EmptyDict)
  /\ theErrors = << >>

-----------------------------------------------------------------------------
(* Apply and resolve harness: selections are applied to the boards whose   *)
(* model is accepted, and the selection of the board is resolved           *)

AgreeBoards ==
  ApplyBoards \cup ValuesBoards \cup FieldBoards \cup PropsBoards \cup ChoicesBoards
  \cup DetectBoards

InitAgree ==
  /\ TokenizerIdle
  /\ VariantIdle
  /\ InitEngine(AgreeBoards)

NextAgree ==
  \/ Build
  \/ \E sel \in (IF theVardict = None THEN {} ELSE Selections(Get(theVardict))) :
       \E dry \in BOOLEAN : Apply(sel, dry)
  \/ Detect

SpecAgree == InitAgree /\ [][NextAgree]_vars

\* sel names a choice for every aspect of the model
NamesAll(sel) ==
  /\ DOMAIN sel = AspectsOf(Get(theVardict))
  /\ \A aspect \in DOMAIN sel : ~IsNone(sel[aspect])

\* the last call of the engine that changed the snapshot applied a
\* selection that names a choice for every aspect
AppliedAll ==
  /\ pc \in {"applied", "detected"}
  /\ ~theDryRun
  /\ ~IsNone(theSelection)
  /\ NamesAll(Get(theSelection))

\* C24: for a model build_vardict returned for a snapshot, after an
\* apply_selection that is no dry run, with a selection that names a choice
\* for every aspect, detect_current_choices on the snapshot as it is then
\* returns exactly that selection.
C24_ApplyThenDetect ==
  AppliedAll =>
    /\ ~theRaised
    /\ detect_current_choices(theFpdict, Get(theVardict)) = Get(theSelection)
    /\ pc = "detected" => theDetected = theSelection

\* on a board of two aspects a selection that changed a value, a property
\* and a field text was applied, and the selection of the board resolved
C24_Witness ==
  /\ pc = "detected"
  /\ AppliedAll
  /\ Cardinality(DOMAIN Get(theSelection)) = 2
  /\ theDetected = theSelection
  /\ \E n \in 1..Len(theChanges) : theChanges[n].what = "value"
  /\ \E n \in 1..Len(theChanges) : theChanges[n].what = "prop"
  /\ \E n \in 1..Len(theChanges) : theChanges[n].what = "field"

Left(aspect) == SurvivingChoices(theFpdict, Get(theVardict))[aspect]

\* C25: for a model build_vardict returned for a snapshot, in the snapshot
\* as it was read and as any apply_selection calls that are no dry runs
\* leave it, at most one choice of every aspect survives the elimination of
\* detect_current_choices; an aspect is reported unresolved only when no
\* choice is left.
C25_OneSurvivor ==
  (pc \in {"built", "applied", "detected"} /\ ~IsNone(theVardict)) =>
    \A aspect \in AspectsOf(Get(theVardict)) :
      /\ Cardinality(Left(aspect)) <= 1
      /\ (pc = "detected" /\ IsNone(Get(theDetected)[aspect])) => Left(aspect) = {}

\* after a selection left one aspect alone, that aspect is unresolved with
\* no choice left, and the other is resolved
C25_Witness ==
  /\ pc = "detected"
  /\ ~theDryRun
  /\ ~IsNone(theSelection)
  /\ \E aspect \in AspectsOf(Get(theVardict)) :
       /\ IsNone(Get(theDetected)[aspect])
       /\ Left(aspect) = {}
  /\ \E aspect \in AspectsOf(Get(theVardict)) :
       /\ ~IsNone(Get(theDetected)[aspect])
       /\ Left(aspect) = {Get(Get(theDetected)[aspect])}

-----------------------------------------------------------------------------
(* Solder paste harness: the solder paste of boards with margin ratios on, *)
(* next to and between the edges of the bands is switched                  *)

\* R1 switches solder paste alone or with the DNP flag, or not at all
SwitchRules == {"X A(+S) B(-S)", "X A(+S +F) B(-S -F) C(+S -F)", "X A(+F) B(-F)"}

SwitchBoards ==
  {<<Footprint("R1", << <<"Var", rule>> >>, "10k", FALSE, pratio, << >>)>> :
     rule \in SwitchRules, pratio \in EdgeRatios}

InitSwitch ==
  /\ TokenizerIdle
  /\ VariantIdle
  /\ InitEngine(SwitchBoards)

NextSwitch ==
  \/ Build
  \/ \E sel \in (IF theVardict = None THEN {} ELSE Selections(Get(theVardict))) :
       \E dry \in BOOLEAN : Apply(sel, dry)

SpecSwitch == InitSwitch /\ [][NextSwitch]_vars

\* C26: in a snapshot built by build_fpdict and changed only by
\* apply_selection calls, dry runs or not, the solder paste state always
\* equals paste_state_from_ratio of the stored margin ratio, and
\* apply_selection never raises the 'Unexpected old paste mode' error.
C26_PasteStateOfRatio ==
  /\ ~theRaised
  /\ \A uuid \in 1..Len(theFpdict) :
       theFpdict[uuid].p[PropCode_SOLDER] = paste_state_from_ratio(theFpdict[uuid].pr)

\* solder paste was switched off at the edge of the ON band and the ratio
\* stands on the edge of the OFF band
C26_Witness ==
  /\ pc = "applied"
  /\ ~theDryRun
  /\ fpBefore[1].pr = Some(FltInt(-100))
  /\ fpBefore[1].p[PropCode_SOLDER] = Some(TRUE)
  /\ theFpdict[1].pr = Some(FltInt(-42100))
  /\ theFpdict[1].p[PropCode_SOLDER] = Some(FALSE)

\* the table is consistent: no variant is listed twice, the choice map has
\* the listed variants as keys, every vector has an entry per aspect, and a
\* table without variants has no aspects
Consistent(self) ==
  /\ \A i, j \in 1..Len(self.variants) : i # j => self.variants[i] # self.variants[j]
  /\ DOMAIN self.choices = Range(self.variants)
  /\ \A variant \in DOMAIN self.choices :
       Len(self.choices[variant]) = Len(self.aspects)
  /\ Len(self.variants) = 0 => Len(self.aspects) = 0

\* C28: in every state of a VariantInfo that read_csv, create_table,
\* add_variant, delete_variant and delete_table lead to, the variant list
\* has no duplicates, the keys of the choice map are the listed variants,
\* every choice vector has as many entries as there are aspects, and the
\* aspect list is emptied when the last variant is deleted; add_variant
\* with a name that is listed and delete_variant with a name that is not
\* return False and change nothing.
C28_TableConsistent ==
  infoPc = "table" =>
    /\ Consistent(theInfo)
    /\ \A variant \in EditVariants :
         IF variant \in Range(theInfo.variants)
         THEN /\ \A choice_dict \in EditSelections :
                   add_variant(theInfo, variant, choice_dict) = Edited(theInfo, FALSE)
              /\ delete_variant(theInfo, variant).result
              /\ Consistent(delete_variant(theInfo, variant).self)
              /\ Len(theInfo.variants) = 1 =>
                   delete_variant(theInfo, variant).self.aspects = << >>
         ELSE /\ delete_variant(theInfo, variant) = Edited(theInfo, FALSE)
              /\ \A choice_dict \in EditSelections :
                   add_variant(theInfo, variant, choice_dict).result

\* the last variant of a table of two aspects was deleted
C28_Witness ==
  /\ infoPc = "table"
  /\ Len(infoBefore.variants) = 1
  /\ Len(infoBefore.aspects) = 2
  /\ theInfo.variants = << >>
  /\ theInfo.aspects = << >>
  /\ theInfo.choices = EmptyDict

-----------------------------------------------------------------------------
(* Tokenizer harness: a string is quoted, the quoted text is cooked *)

MaxLen == 3

Alphabet == {"a", ",", " ", "(", ")", SQ, DQ, BSL}

RECURSIVE StringsUpTo(_)
StringsUpTo(n) ==
  IF n = 0 THEN {""}
  ELSE LET shorter == StringsUpTo(n - 1)
       IN  shorter \cup {s \o c : s \in shorter, c \in Alphabet}

InitStr ==
  /\ txt \in StringsUpTo(MaxLen)
  /\ quoted = ""
  /\ cooked = NoCook
  /\ theParse = NoParse
  /\ pcStr = "start"
  /\ EngineIdle
  /\ VariantIdle

QuoteStr ==
  /\ pcStr = "start"
  /\ quoted' = quote_str(txt)
  /\ pcStr' = "quoted"
  /\ UNCHANGED <<txt, cooked, theParse, engvars, infovars>>

CookQuoted ==
  /\ pcStr = "quoted"
  /\ cooked' = cook_raw_string(quoted)
  /\ pcStr' = "cooked"
  /\ UNCHANGED <<txt, quoted, theParse, engvars, infovars>>

NextStr == QuoteStr \/ CookQuoted

SpecStr == InitStr /\ [][NextStr]_vars

\* C1: for every string s, cook_raw_string(quote_str(s)) succeeds and
\* returns exactly s.
C1_CookQuoteRoundTrip ==
  pcStr = "cooked" => (cooked.ok /\ cooked.val = txt)

\* a string holding a quote, a backslash and a separator went the round trip
C1_Witness ==
  /\ pcStr = "cooked"
  /\ CountChar(txt, SQ) > 0
  /\ CountChar(txt, BSL) > 0
  /\ CountChar(txt, ",") > 0
  /\ cooked.val = txt

====
